---- MODULE Spec2Model ----
(***************************************************************************)
(* A model of the hangman game engine of src/game.py: WordState,           *)
(* SinglePlayerGame and VersusGame.                                        *)
(*                                                                         *)
(* Python strings are sequences of one-character tokens, so that           *)
(* str.lower(), str.isalpha() and len() are computed and not assumed.      *)
(* The methods of the classes are operators from an object (a record of    *)
(* its fields) and the arguments to the object after the call and the      *)
(* returned value.                                                         *)
(***************************************************************************)
EXTENDS Integers, Sequences, FiniteSets, TLC

VARIABLES
    mode,     \* which game the session plays: "solo" or "versus"
    single,   \* the SinglePlayerGame object
    versus,   \* the VersusGame object
    call,     \* the last method call: its name, arguments and returned value
    pre,      \* the object the last call was made on, as it was before the call
    hist,     \* solo: the letters passed to guess() since the game was created
    ai,       \* versus against the computer: the AIPlayer object of the match
    ROOMS,    \* player versus player: the GameRoom objects by room id
    heap,     \* concurrent requests: the GameRoom objects created, by address
    threads   \* concurrent requests: the request each thread serves, its position
              \* in the handler and its local variables

vars == <<mode, single, versus, call, pre, hist, ai, ROOMS, heap, threads>>

----------------------------------------------------------------------------
(* Bounds of the model. *)

\* Clock readings (time.time(), and the now of check_timeout) are 0..MaxTime,
\* counted from the creation of the game.
MaxTime == 1

\* The solo game is created with max_attempts in 1..MaxAttempts.
MaxAttempts == 3

\* A solo game receives at most MaxCalls calls of guess().
MaxCalls == 3

----------------------------------------------------------------------------
(* Characters and strings. *)

\* The characters of the model: three letters of a..z, an uppercase
\* letter, a lowercase letter outside a..z, and a digit.
LowerAscii == {"a", "b", "e"}
Chars == LowerAscii \cup {"A", "e_acute", "1"}

\* str.isalpha() of one character.
AlphaChars == LowerAscii \cup {"A", "e_acute"}

\* str.lower() of one character.
LowerChar(c) == IF c = "A" THEN "a" ELSE c

\* str.lower()
Lower(s) == [i \in 1..Len(s) |-> LowerChar(s[i])]

\* str.isalpha(): every character is alphabetic and there is at least one.
IsAlpha(s) == Len(s) > 0 /\ \A i \in 1..Len(s) : s[i] \in AlphaChars

\* The characters of a string.
CharsOf(s) == {s[i] : i \in 1..Len(s)}

\* `letter in word` for a one-character string `letter`.
InWord(letter, word) == letter[1] \in CharsOf(word)

\* The strings a caller passes as a guess: the empty string, single
\* characters of every kind, and a string of two letters.
Inputs ==
    {<<>>, <<"a">>, <<"b">>, <<"e">>, <<"A">>, <<"e_acute">>, <<"1">>, <<"a", "b">>}

\* The secret words a game is created with (the constructors lowercase them).
RawWords == {<<"A">>, <<"b", "a", "b">>}

\* list(s) of a set s: the elements once each, in the order the set iterates,
\* which is any order.
RECURSIVE ListsOf(_)
ListsOf(S) ==
    IF S = {} THEN {<<>>}
    ELSE UNION { {<<x>> \o l : l \in ListsOf(S \ {x})} : x \in S }

\* The order of the characters by code point, which sorted() goes by.
CharRank(c) ==
    CASE c = "1" -> 1 [] c = "A" -> 2 [] c = "a" -> 3 [] c = "b" -> 4
      [] c = "e" -> 5 [] c = "e_acute" -> 6

\* sorted(s) of a set s of characters.
Sorted(S) ==
    CHOOSE l \in ListsOf(S) :
        \A i, j \in 1..Len(l) : i < j => CharRank(l[i]) < CharRank(l[j])

None == "None"

----------------------------------------------------------------------------
(* SinglePlayerGame *)

SoloPlayerId == "p1"

\* SinglePlayerGame.__init__
SinglePlayerGame_init(secret_word, max_attempts) ==
    [ secret_word     |-> Lower(secret_word),
      max_attempts    |-> max_attempts,
      guessed_letters |-> {},
      wrong_guesses   |-> 0,
      finished        |-> FALSE,
      won             |-> FALSE,
      winner_id       |-> None ]

\* SinglePlayerGame.guess: the early returns, without the one for a finished game.
SinglePlayerGame_guess_ignored_unfinished(g, l) ==
    \/ ~IsAlpha(l) \/ Len(l) # 1
    \/ l[1] \in g.guessed_letters

\* SinglePlayerGame.guess: the early returns, without the one for a repeated letter.
SinglePlayerGame_guess_ignored_repeat(g, l) ==
    \/ g.finished
    \/ ~IsAlpha(l) \/ Len(l) # 1

\* SinglePlayerGame.guess: the early returns, for the lowercased letter l. The
\* game is finished, the guess is not one alphabetic character, or the letter
\* was guessed before.
SinglePlayerGame_guess_ignored(g, l) ==
    \/ g.finished
    \/ ~IsAlpha(l) \/ Len(l) # 1
    \/ l[1] \in g.guessed_letters

\* SinglePlayerGame.guess: the wrong-guess branch, the limit reached one guess early.
SinglePlayerGame_guess_wrong_early(g) ==
    LET g2 == [g EXCEPT !.wrong_guesses = @ + 1] IN
    IF g2.wrong_guesses + 1 >= g2.max_attempts
    THEN [g2 EXCEPT !.finished = TRUE, !.won = FALSE, !.winner_id = None]
    ELSE g2

\* SinglePlayerGame.guess: the wrong-guess branch, never ending the game.
SinglePlayerGame_guess_wrong_nolimit(g) ==
    [g EXCEPT !.wrong_guesses = @ + 1]

\* SinglePlayerGame.guess: the branch of a letter that is not in the word.
SinglePlayerGame_guess_wrong(g) ==
    LET g2 == [g EXCEPT !.wrong_guesses = @ + 1] IN
    IF g2.wrong_guesses >= g2.max_attempts
    THEN [g2 EXCEPT !.finished = TRUE, !.won = FALSE, !.winner_id = None]
    ELSE g2

\* SinglePlayerGame.guess: the correct-guess branch, deciding the win by the
\* number of correct letters instead of the letters of the word.
SinglePlayerGame_guess_correct_count(g) ==
    IF Cardinality(g.guessed_letters) - g.wrong_guesses = Len(g.secret_word)
    THEN [g EXCEPT !.finished = TRUE, !.won = TRUE, !.winner_id = SoloPlayerId]
    ELSE g

\* SinglePlayerGame.guess: the branch of a letter that is in the word.
SinglePlayerGame_guess_correct(g) ==
    IF \A i \in 1..Len(g.secret_word) : g.secret_word[i] \in g.guessed_letters
    THEN [g EXCEPT !.finished = TRUE, !.won = TRUE, !.winner_id = SoloPlayerId]
    ELSE g

\* SinglePlayerGame.guess
SinglePlayerGame_guess(g, letter) ==
    LET l == Lower(letter) IN
    IF SinglePlayerGame_guess_ignored(g, l) THEN g
    ELSE LET g1 == [g EXCEPT !.guessed_letters = @ \cup {l[1]}] IN
         IF ~InWord(l, g1.secret_word)
         THEN SinglePlayerGame_guess_wrong(g1)
         ELSE SinglePlayerGame_guess_correct(g1)

\* SinglePlayerGame.masked_word
SinglePlayerGame_masked_word(g) ==
    [i \in 1..Len(g.secret_word) |->
        IF g.secret_word[i] \in g.guessed_letters THEN g.secret_word[i] ELSE "_"]

\* SinglePlayerGame.remaining_attempts
SinglePlayerGame_remaining_attempts(g) == g.max_attempts - g.wrong_guesses

\* SinglePlayerGame.to_dict: the dicts the call can return, one for each order
\* of list(self.guessed_letters).
SinglePlayerGame_to_dict(g) ==
    { [ player          |-> SoloPlayerId,
        secret_word     |-> g.secret_word,
        max_attempts    |-> g.max_attempts,
        guessed_letters |-> letters,
        wrong_guesses   |-> g.wrong_guesses,
        finished        |-> g.finished,
        won             |-> g.won,
        winner_id       |-> g.winner_id ] : letters \in ListsOf(g.guessed_letters) }

\* SinglePlayerGame.from_dict: the constructor, then the fields of the dict.
SinglePlayerGame_from_dict(data) ==
    [ SinglePlayerGame_init(data.secret_word, data.max_attempts) EXCEPT
        !.guessed_letters = CharsOf(data.guessed_letters),
        !.wrong_guesses   = data.wrong_guesses,
        !.finished        = data.finished,
        !.won             = data.won,
        !.winner_id       = data.winner_id ]

----------------------------------------------------------------------------
(* WordState *)

\* WordState.__init__
WordState_init(secret_word) ==
    [ secret_word |-> Lower(secret_word), guessed_letters |-> {} ]

\* WordState.apply_guess: the word state after the call and the returned value.
WordState_apply_guess(ws, letter) ==
    LET l == Lower(letter) IN
    IF ~IsAlpha(l) \/ Len(l) # 1 THEN [ws |-> ws, ret |-> FALSE]
    ELSE IF l[1] \in ws.guessed_letters THEN [ws |-> ws, ret |-> FALSE]
    ELSE [ ws  |-> [ws EXCEPT !.guessed_letters = @ \cup {l[1]}],
           ret |-> InWord(l, ws.secret_word) ]

\* WordState.masked_word
WordState_masked_word(ws) ==
    [i \in 1..Len(ws.secret_word) |->
        IF ws.secret_word[i] \in ws.guessed_letters THEN ws.secret_word[i] ELSE "_"]

\* WordState.is_fully_revealed, asking that the guessed letters be exactly the
\* letters of the word.
WordState_is_fully_revealed_strict(ws) ==
    CharsOf(ws.secret_word) = ws.guessed_letters

\* WordState.is_fully_revealed
WordState_is_fully_revealed(ws) ==
    \A i \in 1..Len(ws.secret_word) : ws.secret_word[i] \in ws.guessed_letters

\* WordState.to_dict: the dicts the call can return, one for each order of
\* list(self.guessed_letters).
WordState_to_dict(ws) ==
    { [ secret_word |-> ws.secret_word, guessed_letters |-> letters ] :
        letters \in ListsOf(ws.guessed_letters) }

\* WordState.from_dict
WordState_from_dict(data) ==
    [ WordState_init(data.secret_word) EXCEPT
        !.guessed_letters = CharsOf(data.guessed_letters) ]

----------------------------------------------------------------------------
(* VersusGame *)

\* The ids of the two players of the match, in constructor order, and of a
\* third player who is not part of it.
Player1 == "p1"
Player2 == "p2"
Stranger == "p3"
Callers == {Player1, Player2, Stranger}

\* What get_opponent_of raises for a player who is not part of the game.
ValueError == "ValueError"

\* VersusGame.__init__: `first` is the draw of random.choice([0, 1]) and `now`
\* the reading of time.time().
VersusGame_init(player1, player2, word_for_player1, word_for_player2, first, now) ==
    [ players              |-> <<player1, player2>>,
      word_states_by_owner |-> (player1 :> WordState_init(word_for_player1))
                               @@ (player2 :> WordState_init(word_for_player2)),
      current_player_index |-> first,
      turn_started_at      |-> now,
      finished             |-> FALSE,
      winner_id            |-> None ]

\* VersusGame.get_current_player
VersusGame_get_current_player(g) == g.players[g.current_player_index + 1]

\* VersusGame.get_opponent_of, returning the player instead of the opponent.
VersusGame_get_opponent_of_self(g, player) ==
    IF player = g.players[1] THEN g.players[1]
    ELSE IF player = g.players[2] THEN g.players[2]
    ELSE ValueError

\* VersusGame.get_opponent_of
VersusGame_get_opponent_of(g, player) ==
    IF player = g.players[1] THEN g.players[2]
    ELSE IF player = g.players[2] THEN g.players[1]
    ELSE ValueError

\* VersusGame._switch_turn, resetting the timer without passing the turn.
VersusGame_switch_turn_stay(g, now) ==
    [g EXCEPT !.turn_started_at = now]

\* VersusGame._switch_turn: `now` is the reading of time.time().
VersusGame_switch_turn(g, now) ==
    [g EXCEPT !.current_player_index = 1 - @, !.turn_started_at = now]

\* VersusGame.guess_letter: the early returns, checking that the player is part
\* of the game instead of checking that it is the player's turn.
VersusGame_guess_letter_refused_member(g, player) ==
    \/ g.finished
    \/ player \notin {g.players[1], g.players[2]}

\* VersusGame.guess_letter: the early returns, without the one for a finished
\* game.
VersusGame_guess_letter_refused_turn(g, player) ==
    player # VersusGame_get_current_player(g)

\* VersusGame.guess_letter: the early returns. The game is finished or the
\* player is not the current player.
VersusGame_guess_letter_refused(g, player) ==
    \/ g.finished
    \/ player # VersusGame_get_current_player(g)

\* VersusGame.guess_letter: the end of the game, won by the word's owner.
VersusGame_guess_letter_win_owner(g, player) ==
    [g EXCEPT !.finished = TRUE, !.winner_id = VersusGame_get_opponent_of(g, player)]

\* VersusGame.guess_letter: the end of the game, recorded without its winner.
VersusGame_guess_letter_win_unrecorded(g, player) ==
    [g EXCEPT !.finished = TRUE]

\* VersusGame.guess_letter: the opponent's word is fully revealed, the player wins.
VersusGame_guess_letter_win(g, player) ==
    [g EXCEPT !.finished = TRUE, !.winner_id = player]

\* VersusGame.guess_letter: the turn after a guess, passed after every guess.
VersusGame_guess_letter_turn_always(g, was_correct, now) ==
    VersusGame_switch_turn(g, now)

\* VersusGame.guess_letter: the turn after a guess that did not end the game.
\* A guess that was not correct passes the turn.
VersusGame_guess_letter_turn(g, was_correct, now) ==
    IF ~was_correct THEN VersusGame_switch_turn(g, now) ELSE g

\* VersusGame.guess_letter: the game after the call and the returned value.
\* `now` is the reading of time.time() should the turn be switched.
VersusGame_guess_letter(g, player, letter, now) ==
    IF VersusGame_guess_letter_refused(g, player) THEN [game |-> g, ret |-> FALSE]
    ELSE LET opponent == VersusGame_get_opponent_of(g, player)
             applied  == WordState_apply_guess(g.word_states_by_owner[opponent], letter)
             g1       == [g EXCEPT !.word_states_by_owner[opponent] = applied.ws]
         IN  IF WordState_is_fully_revealed(applied.ws)
             THEN [ game |-> VersusGame_guess_letter_win(g1, player),
                    ret  |-> applied.ret ]
             ELSE [ game |-> VersusGame_guess_letter_turn(g1, applied.ret, now),
                    ret  |-> applied.ret ]

\* VersusGame.ai_solve_opponent_word, replacing the guessed letters by the
\* letters of the word instead of adding the letters of the word to them.
VersusGame_ai_solve_opponent_word_forget(g, player) ==
    IF g.finished THEN g
    ELSE IF player # VersusGame_get_current_player(g) THEN g
    ELSE LET opponent == VersusGame_get_opponent_of(g, player)
             ws       == g.word_states_by_owner[opponent]
         IN  [g EXCEPT !.word_states_by_owner[opponent].guessed_letters =
                            CharsOf(ws.secret_word),
                       !.finished = TRUE,
                       !.winner_id = player]

\* VersusGame.ai_solve_opponent_word, open to either player of the game
\* whoever's turn it is.
VersusGame_ai_solve_opponent_word_member(g, player) ==
    IF g.finished THEN g
    ELSE IF player \notin {g.players[1], g.players[2]} THEN g
    ELSE LET opponent == VersusGame_get_opponent_of(g, player)
             ws       == g.word_states_by_owner[opponent]
         IN  [g EXCEPT !.word_states_by_owner[opponent].guessed_letters =
                            @ \cup CharsOf(ws.secret_word),
                       !.finished = TRUE,
                       !.winner_id = player]

\* VersusGame.ai_solve_opponent_word
VersusGame_ai_solve_opponent_word(g, player) ==
    IF g.finished THEN g
    ELSE IF player # VersusGame_get_current_player(g) THEN g
    ELSE LET opponent == VersusGame_get_opponent_of(g, player)
             ws       == g.word_states_by_owner[opponent]
         IN  [g EXCEPT !.word_states_by_owner[opponent].guessed_letters =
                            @ \cup CharsOf(ws.secret_word),
                       !.finished = TRUE,
                       !.winner_id = player]

\* VersusGame.check_timeout, timing out only after more than timeout_seconds.
VersusGame_check_timeout_strict(g, now, timeout_seconds, clock) ==
    IF g.finished THEN [game |-> g, ret |-> FALSE]
    ELSE IF now - g.turn_started_at > timeout_seconds
    THEN [game |-> VersusGame_switch_turn(g, clock), ret |-> TRUE]
    ELSE [game |-> g, ret |-> FALSE]

\* VersusGame.check_timeout: the game after the call and the returned value.
\* `clock` is the reading of time.time() should the turn be switched.
VersusGame_check_timeout(g, now, timeout_seconds, clock) ==
    IF g.finished THEN [game |-> g, ret |-> FALSE]
    ELSE IF now - g.turn_started_at >= timeout_seconds
    THEN [game |-> VersusGame_switch_turn(g, clock), ret |-> TRUE]
    ELSE [game |-> g, ret |-> FALSE]

\* VersusGame.get_view_for: the word state the view is made of, taken to be
\* the player's own.
VersusGame_get_view_for_word_state_own(g, player) ==
    g.word_states_by_owner[player]

\* VersusGame.get_view_for: the word state the view is made of, the one owned
\* by the opponent.
VersusGame_get_view_for_word_state(g, player) ==
    g.word_states_by_owner[VersusGame_get_opponent_of(g, player)]

\* VersusGame.get_view_for: the view returned, or no view and the ValueError
\* that get_opponent_of raised. The game id and the names of the players are
\* left out.
VersusGame_get_view_for(g, player) ==
    IF VersusGame_get_opponent_of(g, player) = ValueError
    THEN [view |-> None, raised |-> ValueError]
    ELSE LET opponent_word_state == VersusGame_get_view_for_word_state(g, player) IN
         [ view   |-> [ player_id            |-> player,
                        masked_opponent_word |-> WordState_masked_word(opponent_word_state),
                        guessed_letters      |-> Sorted(opponent_word_state.guessed_letters),
                        is_current_turn      |-> VersusGame_get_current_player(g) = player,
                        finished             |-> g.finished,
                        winner_id            |-> g.winner_id ],
           raised |-> None ]

\* VersusGame.to_dict: the dicts the call can return. "players" lists the
\* players in the order of self.players, "word_states_by_owner" has the dict of
\* each word state under the id of its owner.
VersusGame_to_dict(g) ==
    { [ players              |-> [i \in 1..Len(g.players) |-> [id |-> g.players[i]]],
        word_states_by_owner |-> ws_data,
        current_player_index |-> g.current_player_index,
        finished             |-> g.finished,
        winner_id            |-> g.winner_id,
        turn_started_at      |-> g.turn_started_at ] :
        ws_data \in { (g.players[1] :> d1) @@ (g.players[2] :> d2) :
                        d1 \in WordState_to_dict(g.word_states_by_owner[g.players[1]]),
                        d2 \in WordState_to_dict(g.word_states_by_owner[g.players[2]]) } }

\* VersusGame.from_dict: the check of the player list, accepting two players
\* or more.
VersusGame_from_dict_expects_atleast(players) == Len(players) >= 2

\* VersusGame.from_dict: the check of the player list, `len(players) != 2`
\* raising ValueError.
VersusGame_from_dict_expects(players) == Len(players) = 2

\* VersusGame.from_dict: the word states, left as the constructor made them.
VersusGame_from_dict_word_states_fresh(ws_data) ==
    [owner_id \in DOMAIN ws_data |-> WordState_init(ws_data[owner_id].secret_word)]

\* VersusGame.from_dict: the word states, each rebuilt from its dict under the
\* same owner id.
VersusGame_from_dict_word_states(ws_data) ==
    [owner_id \in DOMAIN ws_data |-> WordState_from_dict(ws_data[owner_id])]

\* VersusGame.from_dict: the game returned, or no game and the ValueError
\* raised. `first` and `now` are the draws of the constructor, overwritten by
\* the fields of the dict.
VersusGame_from_dict(data, first, now) ==
    LET players == [i \in 1..Len(data.players) |-> data.players[i].id] IN
    IF ~VersusGame_from_dict_expects(players) THEN [game |-> None, raised |-> ValueError]
    ELSE LET ws_data == data.word_states_by_owner
             game    == VersusGame_init(players[1], players[2],
                                        ws_data[players[1]].secret_word,
                                        ws_data[players[2]].secret_word,
                                        first, now)
         IN  [ game   |-> [ game EXCEPT
                    !.word_states_by_owner = VersusGame_from_dict_word_states(ws_data),
                    !.current_player_index = data.current_player_index,
                    !.finished             = data.finished,
                    !.winner_id            = data.winner_id,
                    !.turn_started_at      = data.turn_started_at ],
               raised |-> None ]

----------------------------------------------------------------------------
(* AIPlayer *)

\* A draw of random.random() is r / DrawSteps for an r in 0 .. DrawSteps - 1.
DrawSteps == 4

Draws == 0..(DrawSteps - 1)

\* LETTER_FREQUENCIES.get(ch, 0.001), in millionths.
LETTER_FREQUENCIES(ch) ==
    CASE ch = "a" -> 81756 [] ch = "b" -> 14958 [] ch = "e" -> 126621 [] OTHER -> 1000

Min(a, b) == IF a < b THEN a ELSE b
Max(a, b) == IF a > b THEN a ELSE b

RECURSIVE Pow(_, _)
Pow(x, n) == IF n = 0 THEN 1 ELSE x * Pow(x, n - 1)

RECURSIVE Sum(_, _)
Sum(f, n) == IF n = 0 THEN 0 ELSE f[n] + Sum(f, n - 1)

\* AIPlayer.__init__: the intelligence is clamped to [0, 100].
AIPlayer_init(player_id, intelligence) ==
    [ id |-> player_id, intelligence |-> Max(0, Min(100, intelligence)) ]

\* AIPlayer._should_attempt_solve: the count of the characters of the masked
\* word, counting the hidden ones instead of the revealed ones.
AIPlayer_revealed_count_hidden(masked_word) ==
    Cardinality({i \in 1..Len(masked_word) : masked_word[i] = "_"})

\* AIPlayer._should_attempt_solve: sum(1 for ch in masked_word if ch != "_")
AIPlayer_revealed_count(masked_word) ==
    Cardinality({i \in 1..Len(masked_word) : masked_word[i] # "_"})

\* AIPlayer._should_attempt_solve: r < revealed_ratio ** exponent for the draw
\* r / DrawSteps and the ratio revealed_count / length, in whole numbers.
AIPlayer_recognizes(r, revealed_count, length, exponent) ==
    r * Pow(length, exponent) < DrawSteps * Pow(revealed_count, exponent)

\* AIPlayer._should_attempt_solve, for an intelligence that is a multiple of
\* 10: the exponent max(1.0, 11.0 - intelligence / 10.0) is then whole.
AIPlayer_should_attempt_solve(self, masked_word, r) ==
    LET length         == Len(masked_word)
        revealed_count == AIPlayer_revealed_count(masked_word)
        exponent       == Max(1, 11 - (self.intelligence \div 10))
    IN  IF length = 0 THEN FALSE
        ELSE IF revealed_count = 0 THEN FALSE
        ELSE AIPlayer_recognizes(r, revealed_count, length, exponent)

\* AIPlayer._choose_letter: the letters to choose from, the guessed ones among
\* them.
AIPlayer_remaining_letters_all(guessed_letters) ==
    Sorted(LowerAscii)

\* AIPlayer._choose_letter: sorted(all_letters - guessed_letters)
AIPlayer_remaining_letters(guessed_letters) ==
    Sorted(LowerAscii \ guessed_letters)

\* AIPlayer._choose_letter. The probability of the i-th remaining letter is
\* (1 - mix) / n + mix * freq[i] / total_freq with mix = intelligence / 100;
\* `weight` is that probability times 100 * n * total_freq, and the draw
\* r / DrawSteps is compared with the cumulative probability in those units.
AIPlayer_choose_letter(self, guessed_letters, r) ==
    LET remaining_letters == AIPlayer_remaining_letters(guessed_letters)
        n           == Len(remaining_letters)
        freq_values == [i \in 1..n |-> LETTER_FREQUENCIES(remaining_letters[i])]
        total_freq  == Sum(freq_values, n)
        weight      == [i \in 1..n |-> (100 - self.intelligence) * total_freq
                                          + self.intelligence * n * freq_values[i]]
        hits        == {i \in 1..n : r * 100 * n * total_freq <= DrawSteps * Sum(weight, i)}
    IN  IF n = 0 THEN "e"
        ELSE IF hits = {} THEN remaining_letters[n]
        ELSE remaining_letters[CHOOSE i \in hits : \A j \in hits : i <= j]

\* AIPlayer.decide_move: the two early returns, without the one for a turn
\* that is not the player's.
AIPlayer_decide_move_waits_finished(game_view) ==
    game_view.finished

\* AIPlayer.decide_move: the two early returns. The game is finished, or it is
\* not the player's turn.
AIPlayer_decide_move_waits(game_view) ==
    \/ game_view.finished
    \/ ~game_view.is_current_turn

\* AIPlayer.decide_move: the move returned for the draws r1 of
\* _should_attempt_solve and r2 of _choose_letter. `letter` is None where the
\* dict returned has no letter.
AIPlayer_decide_move(self, game_view, r1, r2) ==
    IF AIPlayer_decide_move_waits(game_view) THEN [type |-> "none", letter |-> None]
    ELSE LET masked_word     == game_view.masked_opponent_word
             guessed_letters == CharsOf(game_view.guessed_letters)
         IN  IF AIPlayer_should_attempt_solve(self, masked_word, r1)
             THEN [type |-> "solve", letter |-> None]
             ELSE [type |-> "letter",
                   letter |-> AIPlayer_choose_letter(self, guessed_letters, r2)]

----------------------------------------------------------------------------
(* The state machine: one game, solo or versus, and the calls made on it. *)

\* The record of a call.
Call(op, player, letter, now, timeout_seconds, ret) ==
    [ op |-> op, player |-> player, letter |-> letter, now |-> now,
      timeout_seconds |-> timeout_seconds, ret |-> ret ]

\* The timeouts passed to check_timeout.
Timeouts == 0..MaxTime

\* The readings of time.time() at or after the start of the current turn.
Readings(g) == g.turn_started_at..MaxTime

\* A solo game created by start_new_game, or a versus game created by
\* start_new_versus_ai_game or pvp_submit_word: the words are not empty and
\* alphabetic, the first turn is drawn at random.
Init ==
    /\ mode \in {"solo", "versus"}
    /\ IF mode = "solo"
       THEN /\ \E w \in RawWords, m \in 1..MaxAttempts :
                   single = SinglePlayerGame_init(w, m)
            /\ versus = None
       ELSE /\ single = None
            /\ \E w1 \in RawWords, w2 \in RawWords, first \in {0, 1} :
                   versus = VersusGame_init(Player1, Player2, w1, w2, first, 0)
    /\ call = Call("init", None, <<>>, 0, 0, None)
    /\ pre = None
    /\ hist = <<>>
    /\ ai = None
    /\ ROOMS = <<>>
    /\ heap = <<>>
    /\ threads = <<>>

\* No call on the versus game, and no request to a room, is under way: the
\* game was just created, or the last call has returned.
Idle == call.op \in {"init", "return"}

\* The last call on the versus game returns to its caller, or the last request
\* to a room is answered; the next is made on the game or room as it was left.
Return ==
    /\ mode \in {"versus", "pvp"}
    /\ ~Idle
    /\ call' = Call("return", None, <<>>, 0, 0, None)
    /\ pre' = None
    /\ UNCHANGED <<heap, threads, ROOMS, ai, mode, single, versus, hist>>

\* game.guess(letter) of the singleplayer route.
SoloGuess ==
    /\ mode = "solo"
    /\ Len(hist) < MaxCalls
    /\ \E letter \in Inputs :
        /\ single' = SinglePlayerGame_guess(single, letter)
        /\ call' = Call("guess", SoloPlayerId, letter, 0, 0, None)
        /\ hist' = Append(hist, letter)
    /\ pre' = single
    /\ UNCHANGED <<heap, threads, ROOMS, ai, mode, versus>>

\* game.guess_letter(player, letter)
GuessLetter ==
    /\ mode = "versus"
    /\ Idle
    /\ \E player \in Callers, letter \in Inputs, now \in Readings(versus) :
        LET r == VersusGame_guess_letter(versus, player, letter, now) IN
        /\ versus' = r.game
        /\ call' = Call("guess_letter", player, letter, 0, 0, r.ret)
    /\ pre' = versus
    /\ UNCHANGED <<heap, threads, ROOMS, ai, mode, single, hist>>

\* game.ai_solve_opponent_word(player)
Solve ==
    /\ mode = "versus"
    /\ Idle
    /\ \E player \in Callers :
        /\ versus' = VersusGame_ai_solve_opponent_word(versus, player)
        /\ call' = Call("ai_solve_opponent_word", player, <<>>, 0, 0, None)
    /\ pre' = versus
    /\ UNCHANGED <<heap, threads, ROOMS, ai, mode, single, hist>>

\* game.check_timeout(now, timeout_seconds)
CheckTimeout ==
    /\ mode = "versus"
    /\ Idle
    /\ \E now \in 0..MaxTime, timeout_seconds \in Timeouts, clock \in Readings(versus) :
        LET r == VersusGame_check_timeout(versus, now, timeout_seconds, clock) IN
        /\ versus' = r.game
        /\ call' = Call("check_timeout", None, <<>>, now, timeout_seconds, r.ret)
    /\ pre' = versus
    /\ UNCHANGED <<heap, threads, ROOMS, ai, mode, single, hist>>

\* The dicts passed to VersusGame.from_dict: what to_dict returns for the game,
\* and the same with a player list of no, one or three players.
SessionDicts(g) ==
    VersusGame_to_dict(g) \cup
    { [d EXCEPT !.players = ps] :
        d \in VersusGame_to_dict(g),
        ps \in { <<>>, <<[id |-> Player1]>>,
                 <<[id |-> Player1], [id |-> Player2], [id |-> Stranger]>> } }

\* session["game"] = game.to_dict() at the end of a request of the singleplayer
\* route, SinglePlayerGame.from_dict(session["game"]) at the start of the next.
SoloFromDict ==
    /\ mode = "solo"
    /\ \E data \in SinglePlayerGame_to_dict(single) :
        /\ single' = SinglePlayerGame_from_dict(data)
        /\ call' = Call("from_dict", None, <<>>, 0, 0, None)
    /\ pre' = single
    /\ UNCHANGED <<heap, threads, ROOMS, ai, mode, versus, hist>>

\* VersusGame.from_dict(data), as multiplayer_ai_game does with the dict it
\* stored in the session. The call is recorded with the list of the player ids
\* of `data` as its player and with what it returned or raised; a decoded game
\* replaces the game, a ValueError leaves it.
VersusFromDict ==
    /\ mode = "versus"
    /\ Idle
    /\ \E data \in SessionDicts(versus), first \in {0, 1}, now \in Readings(versus) :
        LET r == VersusGame_from_dict(data, first, now) IN
        /\ versus' = IF r.raised = ValueError THEN versus ELSE r.game
        /\ call' = Call("from_dict", [i \in 1..Len(data.players) |-> data.players[i].id],
                        <<>>, 0, 0, r.raised)
    /\ pre' = versus
    /\ UNCHANGED <<heap, threads, ROOMS, ai, mode, single, hist>>

\* The intelligence levels a match against the computer is created with:
\* multiples of 10, below, in and above [0, 100].
Intelligences == {-10, 0, 50, 100, 110}

\* The words the human gives the computer to guess: start_new_versus_ai_game
\* keeps every character that isalpha(), a letter outside a..z among them.
HumanWords == RawWords \cup {<<"e_acute">>}

\* A match against the computer as start_new_versus_ai_game creates it: the
\* human is the first player and the computer the second.
InitVersusAI ==
    /\ mode = "versus"
    /\ single = None
    /\ \E w1 \in HumanWords, w2 \in RawWords, first \in {0, 1} :
           versus = VersusGame_init(Player1, Player2, w1, w2, first, 0)
    /\ \E intelligence \in Intelligences : ai = AIPlayer_init(Player2, intelligence)
    /\ call = Call("init", None, <<>>, 0, 0, None)
    /\ pre = None
    /\ hist = <<>>
    /\ ROOMS = <<>>
    /\ heap = <<>>
    /\ threads = <<>>

\* game.get_view_for(player). The call is recorded with the view it returned,
\* or the ValueError it raised.
GetView ==
    /\ mode = "versus"
    /\ Idle
    /\ \E player \in Callers :
        call' = Call("get_view_for", player, <<>>, 0, 0,
                     VersusGame_get_view_for(versus, player))
    /\ pre' = versus
    /\ UNCHANGED <<heap, threads, ROOMS, ai, mode, single, versus, hist>>

\* ai.decide_move(game.get_view_for(ai)), as multiplayer_ai_move asks for the
\* move of the computer. The call is recorded with the move it returned, and
\* with the AIPlayer and the view it was made with in place of the game.
DecideMove ==
    /\ mode = "versus"
    /\ Idle
    /\ \E r1 \in Draws, r2 \in Draws :
        LET game_view == VersusGame_get_view_for(versus, ai.id).view IN
        /\ call' = Call("decide_move", ai.id, <<>>, 0, 0,
                        AIPlayer_decide_move(ai, game_view, r1, r2))
        /\ pre' = [self |-> ai, game_view |-> game_view]
    /\ UNCHANGED <<heap, threads, ROOMS, ai, mode, single, versus, hist>>

Next ==
    \/ SoloGuess \/ GuessLetter \/ Solve \/ CheckTimeout \/ Return
    \/ SoloFromDict \/ VersusFromDict

Spec == Init /\ [][Next]_vars

\* The match against the computer: the guesses of both players, the views
\* and the moves the computer decides on.
NextVersusAI == GuessLetter \/ GetView \/ DecideMove \/ Return

SpecVersusAI == InitVersusAI /\ [][NextVersusAI]_vars

----------------------------------------------------------------------------
(* The routes of the match against the computer. The game lives in the
   session between two requests: `versus` is the game that the last request
   saved, and each request loads it again. *)

\* AiMove is not taken once the computer has moved MaxStreak times in a row.
MaxStreak == 5

\* The human and the computer of the match, as start_new_versus_ai_game
\* creates them.
Human == Player1
Computer == Player2

\* load_versus_ai_game_from_session of the dict that
\* save_versus_ai_game_to_session stored: the games VersusGame.from_dict can
\* return for the dicts to_dict can have stored.
load_versus_ai_game_from_session(g) ==
    { VersusGame_from_dict(data, first, now).game :
        data \in VersusGame_to_dict(g), first \in {0, 1}, now \in Readings(g) }

\* The answer of a route that makes no move: a redirect.
Redirect == [type |-> "redirect", letter |-> None]

\* ai.decide_move(view_for_ai): the moves it can return, one for each pair of
\* draws of random.random().
AIPlayer_moves(self, game_view) ==
    { AIPlayer_decide_move(self, game_view, r1, r2) : r1 \in Draws, r2 \in Draws }

\* multiplayer_ai_move: the game after the move that decide_move returned.
\* `now` is the reading of time.time() should the turn be switched.
multiplayer_ai_move_apply(game, self, move, now) ==
    IF move.type = "solve" THEN VersusGame_ai_solve_opponent_word(game, self.id)
    ELSE IF move.type = "letter"
    THEN VersusGame_guess_letter(game, self.id, <<move.letter>>, now).game
    ELSE game

\* multiplayer_ai_game (POST): the guess of the human. The game is loaded,
\* the letter stripped and lowercased, a letter that is not empty is guessed,
\* and the game is saved. A guess taken from the human ends the row of moves
\* of the computer that hist records.
HumanGuess ==
    /\ mode = "versus"
    /\ \E game \in load_versus_ai_game_from_session(versus),
          letter_raw \in Inputs, now \in Readings(versus) :
        LET letter == Lower(letter_raw)
            r      == VersusGame_guess_letter(game, Human, letter, now)
        IN  /\ versus' = IF Len(letter) = 0 THEN game ELSE r.game
            /\ call' = Call("multiplayer_ai_game", Human, letter_raw, 0, 0,
                            IF Len(letter) = 0 THEN FALSE ELSE r.ret)
            /\ hist' = IF Len(letter) # 0
                          /\ ~VersusGame_guess_letter_refused(game, Human)
                       THEN <<>> ELSE hist
    /\ pre' = versus
    /\ UNCHANGED <<heap, threads, ROOMS, ai, mode, single>>

\* multiplayer_ai_move: one move of the computer. The game is loaded; a
\* finished game, or a turn that is not the computer's, is answered with a
\* redirect; else decide_move is asked with the view of the computer, its
\* move is applied and the game is saved. hist records the moves the
\* computer has made since the human last guessed.
AiMove ==
    /\ mode = "versus"
    /\ Len(hist) < MaxStreak
    /\ \E game \in load_versus_ai_game_from_session(versus) :
        IF game.finished \/ VersusGame_get_current_player(game) # ai.id
        THEN /\ call' = Call("multiplayer_ai_move", ai.id, <<>>, 0, 0, Redirect)
             /\ UNCHANGED <<versus, hist>>
        ELSE \E move \in AIPlayer_moves(ai, VersusGame_get_view_for(game, ai.id).view),
                now \in Readings(versus) :
                 /\ versus' = multiplayer_ai_move_apply(game, ai, move, now)
                 /\ call' = Call("multiplayer_ai_move", ai.id, <<>>, 0, 0, move)
                 /\ hist' = Append(hist, move)
    /\ pre' = versus
    /\ UNCHANGED <<heap, threads, ROOMS, ai, mode, single>>

\* The requests of the match against the computer, handled one at a time.
NextAiRoutes == HumanGuess \/ AiMove

SpecAiRoutes == InitVersusAI /\ [][NextAiRoutes]_vars

----------------------------------------------------------------------------
(* GameRoom, ROOMS and the routes of player versus player. A value that can
   be None (a word slot, the game of a room) is a sequence of no value or of
   one value. *)

\* A room's version is counted up to MaxVersion: no request that changes the
\* room is made at a higher version.
MaxVersion == 6

\* The room id of the requests.
RoomId == "1234"

\* GameRoom.__init__
GameRoom_init ==
    [ players |-> <<>>, words |-> <<>>, game |-> <<>>, version |-> 0 ]

\* `player.id in self.players`: players lists the keys of the dict in the
\* order they were inserted.
GameRoom_has_player(room, player_id) ==
    \E i \in 1..Len(room.players) : room.players[i] = player_id

\* GameRoom.add_player: the room is full, with more than two players only.
GameRoom_add_player_full_over(room) == Len(room.players) > 2

\* GameRoom.add_player: `len(self.players) >= 2`, the room is full.
GameRoom_add_player_full(room) == Len(room.players) >= 2

\* GameRoom.add_player: the player is already in the room, and the call is
\* counted as a change of the room.
GameRoom_add_player_again_counted(room) ==
    [room |-> [room EXCEPT !.version = @ + 1], ret |-> TRUE]

\* GameRoom.add_player: the player is already in the room. Nothing changes
\* and True is returned.
GameRoom_add_player_again(room) ==
    [room |-> room, ret |-> TRUE]

\* GameRoom.add_player: the room after the call and the returned value.
GameRoom_add_player(room, player_id) ==
    IF GameRoom_has_player(room, player_id) THEN GameRoom_add_player_again(room)
    ELSE IF GameRoom_add_player_full(room) THEN [room |-> room, ret |-> FALSE]
    ELSE [ room |-> [ room EXCEPT !.players = Append(@, player_id),
                                  !.words   = (player_id :> <<>>) @@ @,
                                  !.version = @ + 1 ],
           ret  |-> TRUE ]

\* GameRoom.other_player: the first player with another id, or None.
GameRoom_other_player(room, player_id) ==
    LET others == {i \in 1..Len(room.players) : room.players[i] # player_id} IN
    IF others = {} THEN None
    ELSE room.players[CHOOSE i \in others : \A j \in others : i <= j]

\* GameRoom.both_words_set
GameRoom_both_words_set(room) ==
    IF Len(room.players) # 2 THEN FALSE
    ELSE \A i \in 1..Len(room.players) : room.words[room.players[i]] # <<>>

\* get_or_create_room: ROOMS after the call; the room returned is the one
\* under room_id.
get_or_create_room(rooms, room_id) ==
    IF room_id \in DOMAIN rooms THEN rooms
    ELSE (room_id :> GameRoom_init) @@ rooms

\* The VersusGame that pvp_submit_word and pvp_room create, each player given
\* the word of the other.
GameRoom_new_game_swapped(room, first, now) ==
    VersusGame_init(room.players[1], room.players[2],
                    room.words[room.players[2]][1], room.words[room.players[1]][1],
                    first, now)

\* The VersusGame that pvp_submit_word and pvp_room create for a room whose
\* two words are set: the players in the order they joined, each with the word
\* they submitted.
GameRoom_new_game(room, first, now) ==
    VersusGame_init(room.players[1], room.players[2],
                    room.words[room.players[1]][1], room.words[room.players[2]][1],
                    first, now)

\* "".join(ch for ch in word_raw if ch.isalpha()) of the lowercased raw word.
\* The model has no whitespace for strip() to remove.
WordClean(word_raw) ==
    SelectSeq(Lower(word_raw), LAMBDA ch : ch \in AlphaChars)

\* The answer to a request for the room: the page or JSON of the room with
\* the mode, turn, result and version shown, or a redirect or an error.
Answer(status, room_mode, is_current_turn, finished, winner_id, version) ==
    [ status |-> status, mode |-> room_mode, is_current_turn |-> is_current_turn,
      finished |-> finished, winner_id |-> winner_id, version |-> version ]

NoAnswer(status) == Answer(status, None, FALSE, FALSE, None, 0)

\* pvp_room and pvp_room_state before the game exists: choose_word or
\* waiting_for_other_word; with both words set the page creates the game (and
\* says so here with creating_game), the poll answers creating_game.
WordPhase(room, player_id) ==
    LET my_word      == room.words[player_id]
        other_player == GameRoom_other_player(room, player_id)
        other_word   == IF other_player = None THEN <<>> ELSE room.words[other_player]
    IN  IF my_word = <<>> THEN "choose_word"
        ELSE IF other_word = <<>> THEN "waiting_for_other_word"
        ELSE "creating_game"

\* pvp_room and pvp_room_state with a game: what the view of the player says.
InGame(room, player_id) ==
    LET view_for_me == VersusGame_get_view_for(room.game[1], player_id).view IN
    Answer("ok", IF view_for_me.finished THEN "finished" ELSE "in_game",
           view_for_me.is_current_turn, view_for_me.finished, view_for_me.winner_id,
           room.version)

\* pvp_room_state: the JSON answered. The room is not changed.
pvp_room_state(rooms, room_id, player_id) ==
    IF room_id \notin DOMAIN rooms THEN NoAnswer("room_not_found")
    ELSE LET room == rooms[room_id] IN
         IF ~GameRoom_has_player(room, player_id) THEN NoAnswer("not_in_room")
         ELSE IF Len(room.players) < 2
         THEN Answer("ok", "waiting_for_opponent", FALSE, FALSE, None, room.version)
         ELSE IF room.game = <<>>
         THEN Answer("ok", WordPhase(room, player_id), FALSE, FALSE, None, room.version)
         ELSE InGame(room, player_id)

\* pvp_room: ROOMS after the request and the page answered. `first` and `now`
\* are the draws of the constructor should the page create the game.
pvp_room(rooms, room_id, player_id, first, now) ==
    IF room_id \notin DOMAIN rooms THEN [rooms |-> rooms, ret |-> NoAnswer("redirect")]
    ELSE LET room == rooms[room_id] IN
         IF ~GameRoom_has_player(room, player_id)
         THEN [rooms |-> rooms, ret |-> NoAnswer("redirect")]
         ELSE IF Len(room.players) < 2
         THEN [ rooms |-> rooms,
                ret   |-> Answer("ok", "waiting_for_opponent", FALSE, FALSE, None,
                                 room.version) ]
         ELSE IF room.game = <<>>
         THEN IF WordPhase(room, player_id) = "creating_game"
              THEN [ rooms |-> [rooms EXCEPT ![room_id].game =
                                   <<GameRoom_new_game(room, first, now)>>],
                     ret   |-> NoAnswer("redirect") ]
              ELSE [ rooms |-> rooms,
                     ret   |-> Answer("ok", WordPhase(room, player_id), FALSE, FALSE,
                                      None, room.version) ]
         ELSE [rooms |-> rooms, ret |-> InGame(room, player_id)]

\* pvp_submit_word: no word is refused.
pvp_submit_word_rejects_never(word_clean) == FALSE

\* pvp_submit_word: `if not word_clean`, the word is ignored.
pvp_submit_word_rejects(word_clean) == Len(word_clean) = 0

\* pvp_submit_word: the game is never created.
pvp_submit_word_creates_never(room) == FALSE

\* pvp_submit_word: `room.game is None and room.both_words_set()`, the game
\* is created.
pvp_submit_word_creates(room) ==
    room.game = <<>> /\ GameRoom_both_words_set(room)

\* pvp_submit_word: ROOMS after the request.
pvp_submit_word(rooms, room_id, player_id, word_raw, first, now) ==
    IF room_id \notin DOMAIN rooms THEN rooms
    ELSE IF ~GameRoom_has_player(rooms[room_id], player_id) THEN rooms
    ELSE IF pvp_submit_word_rejects(WordClean(word_raw)) THEN rooms
    ELSE LET room1 == [ rooms[room_id] EXCEPT !.words[player_id] = <<WordClean(word_raw)>>,
                                              !.version = @ + 1 ]
         IN  IF pvp_submit_word_creates(room1)
             THEN [ rooms EXCEPT ![room_id] =
                      [ room1 EXCEPT !.game = <<GameRoom_new_game(room1, first, now)>>,
                                     !.version = @ + 1 ] ]
             ELSE [rooms EXCEPT ![room_id] = room1]

\* pvp_guess: ROOMS after the request. `now` is the reading of time.time()
\* should the guess switch the turn.
pvp_guess(rooms, room_id, player_id, letter_raw, now) ==
    IF room_id \notin DOMAIN rooms THEN rooms
    ELSE IF rooms[room_id].game = <<>> THEN rooms
    ELSE IF ~GameRoom_has_player(rooms[room_id], player_id) THEN rooms
    ELSE IF Len(Lower(letter_raw)) = 0 THEN rooms
    ELSE [ rooms EXCEPT
             ![room_id].game = <<VersusGame_guess_letter(@[1], player_id,
                                                         Lower(letter_raw), now).game>>,
             ![room_id].version = @ + 1 ]

\* No room exists when the server starts.
InitPvp ==
    /\ mode = "pvp"
    /\ single = None
    /\ versus = None
    /\ ai = None
    /\ ROOMS = <<>>
    /\ heap = <<>>
    /\ threads = <<>>
    /\ call = Call("init", None, <<>>, 0, 0, None)
    /\ pre = None
    /\ hist = <<>>

\* The raw words a player submits: a word to lowercase, a word of three
\* letters, and a word with no letter.
WordInputs == RawWords \cup {<<"1">>}

\* The room still takes requests that change it.
Open == RoomId \in DOMAIN ROOMS => ROOMS[RoomId].version < MaxVersion

\* The readings of the clock when a request to the room is handled: at or
\* after the start of the current turn of its game.
RoomReadings ==
    IF RoomId \in DOMAIN ROOMS /\ ROOMS[RoomId].game # <<>>
    THEN Readings(ROOMS[RoomId].game[1])
    ELSE {0}

\* pvp_join (POST), with a room id that is not empty.
PvpJoin ==
    /\ mode = "pvp"
    /\ Idle
    /\ Open
    /\ \E player_id \in Callers :
        LET rooms == get_or_create_room(ROOMS, RoomId)
            r     == GameRoom_add_player(rooms[RoomId], player_id)
        IN  /\ ROOMS' = [rooms EXCEPT ![RoomId] = r.room]
            /\ call' = Call("pvp_join", player_id, <<>>, 0, 0, r.ret)
    /\ pre' = ROOMS
    /\ UNCHANGED <<heap, threads, ai, mode, single, versus, hist>>

\* pvp_submit_word
PvpSubmitWord ==
    /\ mode = "pvp"
    /\ Idle
    /\ Open
    /\ \E player_id \in Callers, word_raw \in WordInputs, first \in {0, 1} :
        /\ ROOMS' = pvp_submit_word(ROOMS, RoomId, player_id, word_raw, first, 0)
        /\ call' = Call("pvp_submit_word", player_id, word_raw, 0, 0, None)
    /\ pre' = ROOMS
    /\ UNCHANGED <<heap, threads, ai, mode, single, versus, hist>>

\* pvp_guess
PvpGuess ==
    /\ mode = "pvp"
    /\ Idle
    /\ Open
    /\ \E player_id \in Callers, letter \in Inputs, now \in RoomReadings :
        /\ ROOMS' = pvp_guess(ROOMS, RoomId, player_id, letter, now)
        /\ call' = Call("pvp_guess", player_id, letter, now, 0, None)
    /\ pre' = ROOMS
    /\ UNCHANGED <<heap, threads, ai, mode, single, versus, hist>>

\* pvp_room: the room page, requested when the clock reads `now`.
PvpRoom ==
    /\ mode = "pvp"
    /\ Idle
    /\ \E player_id \in Callers, first \in {0, 1}, now \in RoomReadings :
        LET r == pvp_room(ROOMS, RoomId, player_id, first, now) IN
        /\ ROOMS' = r.rooms
        /\ call' = Call("pvp_room", player_id, <<>>, now, 0, r.ret)
    /\ pre' = ROOMS
    /\ UNCHANGED <<heap, threads, ai, mode, single, versus, hist>>

\* pvp_room_state: the state poll, requested when the clock reads `now`.
PvpRoomState ==
    /\ mode = "pvp"
    /\ Idle
    /\ \E player_id \in Callers, now \in RoomReadings :
        call' = Call("pvp_room_state", player_id, <<>>, now, 0,
                     pvp_room_state(ROOMS, RoomId, player_id))
    /\ pre' = ROOMS
    /\ UNCHANGED <<heap, threads, ROOMS, ai, mode, single, versus, hist>>

\* The requests to one room, handled one at a time.
NextPvp == PvpJoin \/ PvpSubmitWord \/ PvpGuess \/ PvpRoom \/ PvpRoomState \/ Return

SpecPvp == InitPvp /\ [][NextPvp]_vars

----------------------------------------------------------------------------
(* The routes of player versus player served by concurrent threads. The
   handlers take no lock: a thread runs one statement on the shared objects
   at a time, and the statements of the other threads come in between. Here
   ROOMS holds the address of the GameRoom registered under a room id, and
   heap the objects: a GameRoom that was replaced in ROOMS is still used by
   the thread that holds it. *)

\* The number of threads that serve requests.
NumThreads == 2

\* Each thread serves at most MaxRequests requests.
MaxRequests == 3

Threads == 1..NumThreads

\* A thread between two requests, after `served` requests.
IdleThread(served) ==
    [ pc |-> "idle", op |-> None, player |-> None, room |-> 0, tmp |-> 0,
      after |-> None, word |-> <<>>, served |-> served ]

\* A GameRoom object on the heap. `bumps` counts the `version += 1`
\* statements that were completed on it.
NewRoom == [ room |-> GameRoom_init, bumps |-> 0 ]

\* The room the thread holds in its local variable `room`.
RoomOf(t) == heap[threads[t].room].room

\* The thread goes to position pc of its handler.
Goto(t, pc) == threads' = [threads EXCEPT ![t].pc = pc]

\* The handler of the thread returns.
Done(t) == threads' = [threads EXCEPT ![t] = IdleThread(threads[t].served + 1)]

\* The thread is free to take a request.
Free(t) == threads[t].pc = "idle" /\ threads[t].served < MaxRequests

\* ROOMS.get(room_id): the address of the room, or 0 for None.
ROOMS_get(room_id) == IF room_id \in DOMAIN ROOMS THEN ROOMS[room_id] ELSE 0

InitRace ==
    /\ mode = "race"
    /\ single = None
    /\ versus = None
    /\ ai = None
    /\ call = Call("init", None, <<>>, 0, 0, None)
    /\ pre = None
    /\ hist = <<>>
    /\ ROOMS = <<>>
    /\ heap = <<>>
    /\ threads = [t \in Threads |-> IdleThread(0)]

\* What the engine and the other routes leave alone.
Rest == <<mode, single, versus, call, pre, hist, ai>>

\* pvp_join, get_or_create_room: room = ROOMS.get(room_id)
JoinGet(t) ==
    /\ mode = "race"
    /\ Free(t)
    /\ \E player_id \in Callers :
        threads' = [threads EXCEPT ![t].op = "pvp_join", ![t].player = player_id,
                                   ![t].room = ROOMS_get(RoomId),
                                   ![t].pc = IF ROOMS_get(RoomId) = 0 THEN "create"
                                             ELSE "check"]
    /\ UNCHANGED <<ROOMS, heap, Rest>>

\* get_or_create_room: room = GameRoom(room_id); ROOMS[room_id] = room
JoinCreate(t) ==
    /\ mode = "race"
    /\ threads[t].pc = "create"
    /\ heap' = Append(heap, NewRoom)
    /\ ROOMS' = (RoomId :> Len(heap) + 1) @@ ROOMS
    /\ threads' = [threads EXCEPT ![t].room = Len(heap) + 1, ![t].pc = "check"]
    /\ UNCHANGED Rest

\* GameRoom.add_player: the two checks, of the player and of the count.
AddCheck(t) ==
    /\ mode = "race"
    /\ threads[t].pc = "check"
    /\ IF GameRoom_has_player(RoomOf(t), threads[t].player) THEN Done(t)
       ELSE IF GameRoom_add_player_full(RoomOf(t)) THEN Done(t)
       ELSE Goto(t, "insert")
    /\ UNCHANGED <<ROOMS, heap, Rest>>

\* GameRoom.add_player: self.players[player.id] = player;
\* self.words[player.id] = None
AddInsert(t) ==
    /\ mode = "race"
    /\ threads[t].pc = "insert"
    /\ LET player_id == threads[t].player
           room      == RoomOf(t)
       IN  heap' = [heap EXCEPT ![threads[t].room].room =
                      [ room EXCEPT !.players = IF GameRoom_has_player(room, player_id)
                                                THEN room.players
                                                ELSE Append(room.players, player_id),
                                    !.words = (player_id :> <<>>) @@ room.words ] ]
    /\ threads' = [threads EXCEPT ![t].pc = "bump", ![t].after = "done"]
    /\ UNCHANGED <<ROOMS, Rest>>

\* `version += 1`: the version is read.
VersionRead(t) ==
    /\ mode = "race"
    /\ threads[t].pc = "bump"
    /\ threads' = [threads EXCEPT ![t].tmp = RoomOf(t).version, ![t].pc = "store"]
    /\ UNCHANGED <<ROOMS, heap, Rest>>

\* `version += 1`: the version read, plus one, is stored; the handler goes on
\* or returns.
VersionWrite(t) ==
    /\ mode = "race"
    /\ threads[t].pc = "store"
    /\ heap' = [heap EXCEPT ![threads[t].room].room.version = threads[t].tmp + 1,
                            ![threads[t].room].bumps = @ + 1]
    /\ IF threads[t].after = "done" THEN Done(t) ELSE Goto(t, threads[t].after)
    /\ UNCHANGED <<ROOMS, Rest>>

\* The raw words submitted while requests race.
RaceWords == {<<"A">>}

\* pvp_submit_word: the room is looked up, the player checked, the word
\* cleaned.
SubmitGet(t) ==
    /\ mode = "race"
    /\ Free(t)
    /\ \E player_id \in Callers, word_raw \in RaceWords :
        IF ROOMS_get(RoomId) = 0 THEN Done(t)
        ELSE IF ~GameRoom_has_player(heap[ROOMS_get(RoomId)].room, player_id) THEN Done(t)
        ELSE IF pvp_submit_word_rejects(WordClean(word_raw)) THEN Done(t)
        ELSE threads' = [threads EXCEPT ![t].op = "pvp_submit_word",
                                        ![t].player = player_id,
                                        ![t].room = ROOMS_get(RoomId),
                                        ![t].word = WordClean(word_raw),
                                        ![t].pc = "word"]
    /\ UNCHANGED <<ROOMS, heap, Rest>>

\* pvp_submit_word: room.words[player_id] = word_clean
SubmitStore(t) ==
    /\ mode = "race"
    /\ threads[t].pc = "word"
    /\ heap' = [heap EXCEPT ![threads[t].room].room.words[threads[t].player] =
                                <<threads[t].word>>]
    /\ threads' = [threads EXCEPT ![t].pc = "bump", ![t].after = "game_check"]
    /\ UNCHANGED <<ROOMS, Rest>>

\* pvp_submit_word: if room.game is None and room.both_words_set()
SubmitCheck(t) ==
    /\ mode = "race"
    /\ threads[t].pc = "game_check"
    /\ IF pvp_submit_word_creates(RoomOf(t)) THEN Goto(t, "game_create") ELSE Done(t)
    /\ UNCHANGED <<ROOMS, heap, Rest>>

\* VersusGame(...) raises AttributeError, from secret_word.lower() in
\* WordState.__init__, when the word of one of the first two players is None:
\* a join that came in between has reset it.
NewGameRaises(room) ==
    \E i \in 1..2 : room.words[room.players[i]] = <<>>

\* pvp_submit_word: room.game = VersusGame(...). When the constructor raises,
\* the request ends with the error and the room is left without a game.
SubmitCreate(t) ==
    /\ mode = "race"
    /\ threads[t].pc = "game_create"
    /\ IF NewGameRaises(RoomOf(t))
       THEN /\ heap' = heap
            /\ Done(t)
       ELSE /\ \E first \in {0, 1} :
                  heap' = [heap EXCEPT ![threads[t].room].room.game =
                                          <<GameRoom_new_game(RoomOf(t), first, 0)>>]
            /\ threads' = [threads EXCEPT ![t].pc = "bump", ![t].after = "done"]
    /\ UNCHANGED <<ROOMS, Rest>>

\* pvp_room: the room is looked up and the page chosen. With two players,
\* both words set and no game, the page goes on to create the game.
PageGet(t) ==
    /\ mode = "race"
    /\ Free(t)
    /\ \E player_id \in Callers :
        IF ROOMS_get(RoomId) = 0 THEN Done(t)
        ELSE LET room == heap[ROOMS_get(RoomId)].room IN
             IF /\ GameRoom_has_player(room, player_id)
                /\ Len(room.players) >= 2
                /\ room.game = <<>>
                /\ WordPhase(room, player_id) = "creating_game"
             THEN threads' = [threads EXCEPT ![t].op = "pvp_room",
                                             ![t].player = player_id,
                                             ![t].room = ROOMS_get(RoomId),
                                             ![t].pc = "page_create"]
             ELSE Done(t)
    /\ UNCHANGED <<ROOMS, heap, Rest>>

\* pvp_room: room.game = VersusGame(...), and the redirect, or the error
\* that the constructor raises.
PageCreate(t) ==
    /\ mode = "race"
    /\ threads[t].pc = "page_create"
    /\ IF NewGameRaises(RoomOf(t))
       THEN heap' = heap
       ELSE \E first \in {0, 1} :
               heap' = [heap EXCEPT ![threads[t].room].room.game =
                                       <<GameRoom_new_game(RoomOf(t), first, 0)>>]
    /\ Done(t)
    /\ UNCHANGED <<ROOMS, Rest>>

\* A statement of one of the threads.
NextRace ==
    \E t \in Threads :
        \/ JoinGet(t) \/ JoinCreate(t) \/ AddCheck(t) \/ AddInsert(t)
        \/ VersionRead(t) \/ VersionWrite(t)
        \/ SubmitGet(t) \/ SubmitStore(t) \/ SubmitCheck(t) \/ SubmitCreate(t)
        \/ PageGet(t) \/ PageCreate(t)

SpecRace == InitRace /\ [][NextRace]_vars

----------------------------------------------------------------------------
(* Vocabulary of the properties. *)

\* The guess is exactly one alphabetic character.
ValidGuess(letter) == IsAlpha(Lower(letter)) /\ Len(Lower(letter)) = 1

\* The letter a valid guess stands for.
LetterOf(letter) == Lower(letter)[1]

\* The word state the player guesses against: the one owned by the opponent.
OpponentWord(g, player) ==
    g.word_states_by_owner[VersusGame_get_opponent_of(g, player)]

\* The last call was guess_letter, by the current player of an unfinished match.
GuessByCurrentPlayer ==
    /\ mode = "versus"
    /\ call.op = "guess_letter"
    /\ ~pre.finished
    /\ call.player = VersusGame_get_current_player(pre)

\* Every letter of the solo game's word is guessed.
SoloRevealed(g) == CharsOf(g.secret_word) \subseteq g.guessed_letters

\* The guesses of h are valid and stand for pairwise distinct letters.
DistinctLetters(h) ==
    /\ \A i \in 1..Len(h) : ValidGuess(h[i])
    /\ \A i, j \in 1..Len(h) : i # j => LetterOf(h[i]) # LetterOf(h[j])

----------------------------------------------------------------------------
(* Properties of the versus match. *)

\* C1: in an unfinished versus match, a guess_letter call by the current
\* player with a letter that is not in the opponent's word passes the turn to
\* the other player, and the match stays unfinished.
C1_WrongGuessFlipsTurn ==
    ( /\ GuessByCurrentPlayer
      /\ ValidGuess(call.letter)
      /\ LetterOf(call.letter) \notin CharsOf(OpponentWord(pre, call.player).secret_word) )
    => /\ versus.current_player_index = 1 - pre.current_player_index
       /\ ~versus.finished

\* C1's case: the current player has guessed a new letter that is not in the
\* opponent's word, and the turn went to the other player.
C1_Witness ==
    /\ GuessByCurrentPlayer
    /\ ValidGuess(call.letter)
    /\ LetterOf(call.letter) \notin CharsOf(OpponentWord(pre, call.player).secret_word)
    /\ LetterOf(call.letter) \notin OpponentWord(pre, call.player).guessed_letters
    /\ versus.current_player_index = 1 - pre.current_player_index

\* C2: when the current player guesses a new letter that occurs in the
\* opponent's word and the word is still not fully revealed afterwards,
\* guess_letter returns true and current_player_index and turn_started_at are
\* unchanged.
C2_CorrectGuessKeepsTurn ==
    ( /\ GuessByCurrentPlayer
      /\ ValidGuess(call.letter)
      /\ LetterOf(call.letter) \notin OpponentWord(pre, call.player).guessed_letters
      /\ LetterOf(call.letter) \in CharsOf(OpponentWord(pre, call.player).secret_word)
      /\ ~WordState_is_fully_revealed(OpponentWord(versus, call.player)) )
    => /\ call.ret = TRUE
       /\ versus.current_player_index = pre.current_player_index
       /\ versus.turn_started_at = pre.turn_started_at

\* C2's case: a correct guess that leaves the word incomplete, made when the
\* clock could have moved on since the turn started.
C2_Witness ==
    /\ GuessByCurrentPlayer
    /\ ValidGuess(call.letter)
    /\ LetterOf(call.letter) \notin OpponentWord(pre, call.player).guessed_letters
    /\ LetterOf(call.letter) \in CharsOf(OpponentWord(pre, call.player).secret_word)
    /\ ~WordState_is_fully_revealed(OpponentWord(versus, call.player))
    /\ pre.turn_started_at < MaxTime
    /\ call.ret = TRUE

\* C3: after a guess_letter call that leaves the opponent's word fully
\* revealed, the match is finished, the winner is the player who guessed (not
\* the owner of the word) and current_player_index is what it was.
C3_RevealingGuessWins ==
    ( /\ mode = "versus"
      /\ call.op = "guess_letter"
      /\ call.player \in {Player1, Player2}
      /\ WordState_is_fully_revealed(OpponentWord(versus, call.player)) )
    => /\ versus.finished
       /\ versus.winner_id = call.player
       /\ versus.winner_id # VersusGame_get_opponent_of(versus, call.player)
       /\ versus.current_player_index = pre.current_player_index

\* C3's case: the guess that revealed the last hidden letter.
C3_Witness ==
    /\ GuessByCurrentPlayer
    /\ ~WordState_is_fully_revealed(OpponentWord(pre, call.player))
    /\ WordState_is_fully_revealed(OpponentWord(versus, call.player))
    /\ versus.winner_id = call.player

\* C4: a guess that is not exactly one alphabetic character changes nothing:
\* in a solo game, and in a versus match when made by the current player.
C4_InvalidGuessIsNoOp ==
    /\ ( mode = "solo" /\ call.op = "guess" /\ ~ValidGuess(call.letter) )
       => single = pre
    /\ ( GuessByCurrentPlayer /\ ~ValidGuess(call.letter) )
       => versus = pre

\* C5: guess_letter called by a player who is not the current player returns
\* false and changes nothing of the match.
C5_TurnDiscipline ==
    ( /\ mode = "versus"
      /\ call.op = "guess_letter"
      /\ call.player # VersusGame_get_current_player(pre) )
    => /\ call.ret = FALSE
       /\ versus = pre

\* C5's case: in an unfinished match the player who is not on turn has guessed
\* a new letter that is in the word they guess against.
C5_Witness ==
    /\ mode = "versus"
    /\ call.op = "guess_letter"
    /\ ~pre.finished
    /\ call.player \in {Player1, Player2}
    /\ call.player # VersusGame_get_current_player(pre)
    /\ ValidGuess(call.letter)
    /\ LetterOf(call.letter) \notin OpponentWord(pre, call.player).guessed_letters
    /\ LetterOf(call.letter) \in CharsOf(OpponentWord(pre, call.player).secret_word)
    /\ call.ret = FALSE

----------------------------------------------------------------------------
(* Properties of the solo game. *)

\* C6: in every state of a solo game, finished holds exactly when the
\* wrong-guess count has reached max_attempts or the word is fully revealed,
\* and won holds only when the word is fully revealed.
C6_SoloInvariant ==
    mode = "solo" =>
        /\ single.finished <=>
              ( single.wrong_guesses >= single.max_attempts \/ SoloRevealed(single) )
        /\ single.won => SoloRevealed(single)

\* C6's case: a lost game, ended by the attempt limit.
C6_Witness ==
    /\ mode = "solo"
    /\ single.finished
    /\ ~single.won
    /\ single.wrong_guesses >= single.max_attempts
    /\ ~SoloRevealed(single)

\* C7: after k < max_attempts guesses of distinct letters that are not in the
\* word, made on a fresh solo game, the game is not finished and
\* remaining_attempts is max_attempts - k.
C7_WrongGuessesCounted ==
    ( /\ mode = "solo"
      /\ DistinctLetters(hist)
      /\ \A i \in 1..Len(hist) : LetterOf(hist[i]) \notin CharsOf(single.secret_word)
      /\ Len(hist) < single.max_attempts )
    => /\ ~single.finished
       /\ SinglePlayerGame_remaining_attempts(single) = single.max_attempts - Len(hist)

\* C7's case: two distinct wrong letters guessed, one attempt left.
C7_Witness ==
    /\ mode = "solo"
    /\ Len(hist) = 2
    /\ DistinctLetters(hist)
    /\ \A i \in 1..Len(hist) : LetterOf(hist[i]) \notin CharsOf(single.secret_word)
    /\ Len(hist) < single.max_attempts
    /\ SinglePlayerGame_remaining_attempts(single) = 1

\* C8: after guessing every distinct letter of the word once, in any order, on
\* a fresh solo game, the game is finished and won with no wrong guess.
C8_AllLettersWin ==
    ( /\ mode = "solo"
      /\ DistinctLetters(hist)
      /\ {LetterOf(hist[i]) : i \in 1..Len(hist)} = CharsOf(single.secret_word) )
    => /\ single.finished
       /\ single.won
       /\ single.wrong_guesses = 0

\* C8's case: a word with a repeated letter, won by its two distinct letters.
C8_Witness ==
    /\ mode = "solo"
    /\ DistinctLetters(hist)
    /\ {LetterOf(hist[i]) : i \in 1..Len(hist)} = CharsOf(single.secret_word)
    /\ Len(hist) = 2
    /\ Len(single.secret_word) = 3
    /\ single.won

\* C9: guessing an already guessed letter again changes nothing: the solo game
\* (guessed letters, wrong-guess count, finished, won) and its masked word are
\* as before, and so are a WordState and its masked word.
C9_RepeatedGuessIdempotent ==
    /\ ( /\ mode = "solo"
         /\ call.op = "guess"
         /\ ValidGuess(call.letter)
         /\ LetterOf(call.letter) \in pre.guessed_letters )
       => /\ single = pre
          /\ SinglePlayerGame_masked_word(single) = SinglePlayerGame_masked_word(pre)
    /\ ( /\ GuessByCurrentPlayer
         /\ ValidGuess(call.letter)
         /\ LetterOf(call.letter) \in OpponentWord(pre, call.player).guessed_letters )
       => /\ versus.word_states_by_owner = pre.word_states_by_owner
          /\ WordState_masked_word(OpponentWord(versus, call.player))
                = WordState_masked_word(OpponentWord(pre, call.player))
          /\ call.ret = FALSE

\* C9's case: in a running solo game a wrong letter was guessed a second time.
C9_Witness ==
    /\ mode = "solo"
    /\ call.op = "guess"
    /\ ~pre.finished
    /\ ValidGuess(call.letter)
    /\ LetterOf(call.letter) \in pre.guessed_letters
    /\ LetterOf(call.letter) \notin CharsOf(pre.secret_word)
    /\ single = pre

\* C10: once a solo game is finished, every further guess, valid or not,
\* leaves the whole game unchanged.
C10_SoloTerminalAbsorbing ==
    ( mode = "solo" /\ call.op = "guess" /\ pre.finished )
    => single = pre

\* C10's case: a new valid letter guessed on a lost game.
C10_Witness ==
    /\ mode = "solo"
    /\ call.op = "guess"
    /\ pre.finished
    /\ ~pre.won
    /\ ValidGuess(call.letter)
    /\ LetterOf(call.letter) \notin pre.guessed_letters
    /\ single = pre

----------------------------------------------------------------------------
(* Properties of solving and of the turn timeout. *)

\* The last call was ai_solve_opponent_word, by the current player of an
\* unfinished match.
SolveByCurrentPlayer ==
    /\ mode = "versus"
    /\ call.op = "ai_solve_opponent_word"
    /\ ~pre.finished
    /\ call.player = VersusGame_get_current_player(pre)

\* The letters of the word the player guesses against that are not guessed yet.
HiddenLetters(g, player) ==
    CharsOf(OpponentWord(g, player).secret_word) \ OpponentWord(g, player).guessed_letters

\* The orders in which the letters of S can be guessed one by one.
Orders(S) ==
    {o \in [1..Cardinality(S) -> S] : \A i, j \in 1..Cardinality(S) : i # j => o[i] # o[j]}

\* The game after the player has guessed the letters of `order` one by one, each
\* with guess_letter.
RECURSIVE GuessEach(_, _, _)
GuessEach(g, player, order) ==
    IF order = <<>> THEN g
    ELSE GuessEach(VersusGame_guess_letter(g, player, <<Head(order)>>, g.turn_started_at).game,
                   player, Tail(order))

\* The two games have the same guessed letters and masks of both words, the
\* same turn, and the same result.
SameOutcome(g1, g2) ==
    /\ \A p \in {Player1, Player2} :
          /\ g1.word_states_by_owner[p].guessed_letters
                = g2.word_states_by_owner[p].guessed_letters
          /\ WordState_masked_word(g1.word_states_by_owner[p])
                = WordState_masked_word(g2.word_states_by_owner[p])
    /\ g1.current_player_index = g2.current_player_index
    /\ g1.finished = g2.finished
    /\ g1.winner_id = g2.winner_id

\* C11: ai_solve_opponent_word by the current player of an unfinished match
\* leaves the match as the current player would by guessing, one by one and in
\* any order, every letter of the opponent's word that is not guessed yet.
C11_SolveEqualsGuessingAll ==
    SolveByCurrentPlayer =>
        \A order \in Orders(HiddenLetters(pre, call.player)) :
            SameOutcome(versus, GuessEach(pre, call.player, order))

\* C11's case: the word solved had two hidden letters and a wrong letter
\* already guessed against it.
C11_Witness ==
    /\ SolveByCurrentPlayer
    /\ Cardinality(HiddenLetters(pre, call.player)) = 2
    /\ OpponentWord(pre, call.player).guessed_letters # {}
    /\ versus.finished

\* C12: ai_solve_opponent_word called by a player who is not the current
\* player, or on a finished match, changes nothing; called by the current
\* player of an unfinished match it ends the match.
C12_SolveOnlyByCurrentPlayer ==
    /\ ( /\ mode = "versus"
         /\ call.op = "ai_solve_opponent_word"
         /\ (pre.finished \/ call.player # VersusGame_get_current_player(pre)) )
       => versus = pre
    /\ SolveByCurrentPlayer => (versus.finished /\ versus.winner_id = call.player)

\* C12's case: the player of an unfinished match who is not on turn has
\* called ai_solve_opponent_word.
C12_Witness ==
    /\ mode = "versus"
    /\ call.op = "ai_solve_opponent_word"
    /\ ~pre.finished
    /\ call.player \in {Player1, Player2}
    /\ call.player # VersusGame_get_current_player(pre)
    /\ versus = pre

C14_CheckTimeoutIdempotent ==
    ( mode = "versus" /\ call.op = "check_timeout" /\ call.timeout_seconds > 0 )
    => \A clock \in Readings(versus) :
          VersusGame_check_timeout(versus, call.now, call.timeout_seconds, clock)
             = [game |-> versus, ret |-> FALSE]

----------------------------------------------------------------------------
(* Properties of the session encoding. *)

\* The two solo games show the same mask, guessed letters, wrong-guess count
\* and result.
SameSolo(g1, g2) ==
    /\ SinglePlayerGame_masked_word(g1) = SinglePlayerGame_masked_word(g2)
    /\ g1.guessed_letters = g2.guessed_letters
    /\ g1.wrong_guesses = g2.wrong_guesses
    /\ g1.finished = g2.finished
    /\ g1.won = g2.won
    /\ g1.winner_id = g2.winner_id

\* Each player of g1 owns the same word in g2.
SameOwners(g1, g2) ==
    /\ g1.players = g2.players
    /\ DOMAIN g1.word_states_by_owner = DOMAIN g2.word_states_by_owner
    /\ \A p \in DOMAIN g1.word_states_by_owner :
          g1.word_states_by_owner[p].secret_word = g2.word_states_by_owner[p].secret_word

\* C16: decoding the encoding of a solo or versus game gives a game with the
\* same masked words, guessed letters, wrong-guess count (solo), current player
\* index, finished flag and winner, and in versus every player id still owns
\* the same word, whatever the order the guessed letters were listed in.
C16_RoundTrip ==
    /\ (mode = "solo" /\ call.op = "from_dict") => SameSolo(single, pre)
    /\ (mode = "versus" /\ call.op = "from_dict" /\ Len(call.player) = 2)
         => /\ call.ret = None
            /\ SameOutcome(versus, pre)
            /\ SameOwners(versus, pre)
            /\ versus.turn_started_at = pre.turn_started_at

\* C16's case: a versus game was decoded in which two letters were guessed
\* against each word, the two words differ, and the second player is on turn.
C16_Witness ==
    /\ mode = "versus"
    /\ call.op = "from_dict"
    /\ Len(call.player) = 2
    /\ \A p \in {Player1, Player2} :
          Cardinality(pre.word_states_by_owner[p].guessed_letters) = 2
    /\ pre.word_states_by_owner[Player1].secret_word
          # pre.word_states_by_owner[Player2].secret_word
    /\ pre.current_player_index = 1
    /\ versus = pre

\* C17: VersusGame.from_dict raises ValueError, and gives no game, whenever the
\* player list of the dict does not have exactly two players.
C17_DecodeNeedsTwoPlayers ==
    (mode = "versus" /\ call.op = "from_dict" /\ Len(call.player) # 2)
    => (call.ret = ValueError /\ versus = pre)

\* C17's case: a dict with three players was decoded and ValueError raised.
C17_Witness ==
    /\ mode = "versus"
    /\ call.op = "from_dict"
    /\ Len(call.player) = 3
    /\ call.ret = ValueError

\* C17's other cases: dicts with no player and with one player were refused.
C17_WitnessFewer ==
    /\ mode = "versus"
    /\ call.op = "from_dict"
    /\ Len(call.player) < 2
    /\ call.ret = ValueError

----------------------------------------------------------------------------
(* Properties of the view and of the computer's move. *)

\* The words with the same mask as the word of ws under the letters guessed
\* against it: they differ from it in hidden letters only.
SameMaskWords(ws) ==
    { w \in [1..Len(ws.secret_word) -> LowerAscii] :
        WordState_masked_word([ws EXCEPT !.secret_word = w]) = WordState_masked_word(ws) }

\* Word states of a player's own word: other words, other letters guessed.
OwnWordStates ==
    { [secret_word |-> Lower(w), guessed_letters |-> guessed] :
        w \in RawWords, guessed \in {{}, {"a"}, {"a", "b"}} }

\* The matches that agree with g on the players, the turn, finished and
\* winner, the letters guessed against the word of the player's opponent and
\* the mask of that word, and differ from g in the hidden letters of that
\* word and in the state of the player's own word.
ViewVariants(g, player) ==
    LET opponent == VersusGame_get_opponent_of(g, player) IN
    { [g EXCEPT !.word_states_by_owner[player] = own,
                !.word_states_by_owner[opponent].secret_word = w] :
        own \in OwnWordStates, w \in SameMaskWords(g.word_states_by_owner[opponent]) }

\* C18: the view of a player depends neither on the hidden letters of the
\* opponent's word nor on the player's own word. Every match that agrees with
\* the game on players, turn, finished and winner, the letters guessed against
\* the opponent's word and its mask gives the player the very same view.
C18_ViewNonInterference ==
    ( /\ mode = "versus"
      /\ call.op = "get_view_for"
      /\ call.player \in {Player1, Player2} )
    => /\ call.ret.raised = None
       /\ \A g2 \in ViewVariants(pre, call.player) :
             VersusGame_get_view_for(g2, call.player) = call.ret

\* C18's case: a view was made for a player whose own word is partly revealed
\* while the opponent's word has a revealed and a hidden letter.
C18_Witness ==
    /\ mode = "versus"
    /\ call.op = "get_view_for"
    /\ call.player = Player1
    /\ call.ret.raised = None
    /\ pre.word_states_by_owner[Player1].guessed_letters = {"a", "e"}
    /\ call.ret.view.masked_opponent_word = <<"b", "_", "b">>
    /\ Cardinality(ViewVariants(pre, Player1)) > 6

\* C19: decide_move returns the move "none" exactly when the view says the
\* match is finished or it is not the player's turn; otherwise it returns a
\* solve attempt or a letter, whatever the intelligence in [0, 100] and the
\* random draws.
C19_DecideMoveActs ==
    ( mode = "versus" /\ call.op = "decide_move" )
    => /\ pre.self.intelligence \in 0..100
       /\ call.ret.type = "none"
             <=> (pre.game_view.finished \/ ~pre.game_view.is_current_turn)
       /\ call.ret.type # "none"
             => \/ call.ret.type = "solve" /\ call.ret.letter = None
                \/ call.ret.type = "letter" /\ call.ret.letter \in LowerAscii

\* C19's case: on its turn in an unfinished match the computer, at
\* intelligence 0, decided on a letter.
C19_Witness ==
    /\ mode = "versus"
    /\ call.op = "decide_move"
    /\ pre.self.intelligence = 0
    /\ ~pre.game_view.finished
    /\ pre.game_view.is_current_turn
    /\ call.ret.type = "letter"

\* No character of the masked word is revealed.
Blank(masked_word) == \A i \in 1..Len(masked_word) : masked_word[i] = "_"

\* C20: when no character of the opponent's masked word is revealed,
\* decide_move never returns a solve attempt, whatever the intelligence and the
\* random draws.
C20_NoSolveOnBlankWord ==
    ( /\ mode = "versus"
      /\ call.op = "decide_move"
      /\ Blank(pre.game_view.masked_opponent_word) )
    => call.ret.type # "solve"

\* C20's case: on its turn, at intelligence 100 and with a wrong letter
\* already guessed, the computer saw a blank word and decided on a letter.
C20_Witness ==
    /\ mode = "versus"
    /\ call.op = "decide_move"
    /\ pre.self.intelligence = 100
    /\ ~pre.game_view.finished
    /\ pre.game_view.is_current_turn
    /\ Blank(pre.game_view.masked_opponent_word)
    /\ pre.game_view.guessed_letters # <<>>
    /\ call.ret.type = "letter"

\* The computer does attempt to solve once a letter is revealed.
SolveAttempted ==
    /\ mode = "versus"
    /\ call.op = "decide_move"
    /\ ~Blank(pre.game_view.masked_opponent_word)
    /\ call.ret.type = "solve"

----------------------------------------------------------------------------
(* Properties of the rooms. *)

\* The last request was a read of the room, the room page or the state poll,
\* by a player of a room whose game was not finished.
ReadOfRunningGame ==
    /\ mode = "pvp"
    /\ call.op \in {"pvp_room", "pvp_room_state"}
    /\ RoomId \in DOMAIN pre
    /\ pre[RoomId].game # <<>>
    /\ ~pre[RoomId].game[1].finished
    /\ GameRoom_has_player(pre[RoomId], call.player)

\* The turn of the game of the room has passed to the other player during the
\* last request.
TurnSwitched ==
    ROOMS[RoomId].game[1].current_player_index
        = 1 - pre[RoomId].game[1].current_player_index

\* C15: the turn timeout is evaluated on read. There is a timeout such that
\* every read of a room, when the current turn of its running game has lasted
\* at least the timeout, passes the turn to the other player, and no reader is
\* told that a turn older than the timeout is still the current one.
C15_TimeoutOnRead ==
    \E timeout_seconds \in 1..MaxTime :
        ( /\ ReadOfRunningGame
          /\ call.now - pre[RoomId].game[1].turn_started_at >= timeout_seconds )
        => /\ TurnSwitched
           /\ call.ret.is_current_turn
                 = (VersusGame_get_current_player(pre[RoomId].game[1]) # call.player)

----------------------------------------------------------------------------
(* Properties of the letter the computer chooses. *)

\* The letters of the alphabet not guessed yet against the word in the view.
Unguessed(game_view) == LowerAscii \ CharsOf(game_view.guessed_letters)

\* C21: a letter that decide_move returns is one of the letters of the
\* alphabet not guessed yet against the opponent's word, as long as there is
\* one, whatever the intelligence and the random draws; with every letter of
\* the alphabet guessed, decide_move still returns a letter.
C21_LetterIsUnguessed ==
    ( mode = "versus" /\ call.op = "decide_move" /\ call.ret.type = "letter" )
    => /\ Unguessed(pre.game_view) # {} => call.ret.letter \in Unguessed(pre.game_view)
       /\ call.ret.letter \in LowerAscii

\* C21's case: with two letters guessed, one of them revealed, the computer
\* at intelligence 50 chose the one letter left.
C21_Witness ==
    /\ mode = "versus"
    /\ call.op = "decide_move"
    /\ pre.self.intelligence = 50
    /\ Cardinality(Unguessed(pre.game_view)) = 1
    /\ ~Blank(pre.game_view.masked_opponent_word)
    /\ call.ret.type = "letter"
    /\ call.ret.letter \in Unguessed(pre.game_view)

\* C21's other case: on its turn with every letter of the alphabet guessed,
\* the computer decided on a letter.
C21_WitnessExhausted ==
    /\ mode = "versus"
    /\ call.op = "decide_move"
    /\ Unguessed(pre.game_view) = {}
    /\ pre.game_view.is_current_turn
    /\ ~pre.game_view.finished
    /\ call.ret.type = "letter"

----------------------------------------------------------------------------
(* Properties of the requests to a room, handled one at a time. *)

\* The last request was made to the room with this route.
Request(op) == mode = "pvp" /\ call.op = op

\* The room before the last request: a room that did not exist yet is the
\* fresh room that get_or_create_room creates.
PreRoom == IF RoomId \in DOMAIN pre THEN pre[RoomId] ELSE GameRoom_init

\* The room after the last request.
Room == ROOMS[RoomId]

\* C22: a room never holds more than 2 players. A join by a new player to a
\* room with fewer than 2 players succeeds and adds the player; a join by a
\* third player is refused, returning false, and changes nothing.
C22_AtMostTwoPlayers ==
    /\ (mode = "pvp" /\ RoomId \in DOMAIN ROOMS) => Len(Room.players) <= 2
    /\ ( /\ Request("pvp_join")
         /\ ~GameRoom_has_player(PreRoom, call.player)
         /\ Len(PreRoom.players) < 2 )
       => /\ call.ret = TRUE
          /\ Room.players = Append(PreRoom.players, call.player)
    /\ ( /\ Request("pvp_join")
         /\ ~GameRoom_has_player(PreRoom, call.player)
         /\ Len(PreRoom.players) = 2 )
       => /\ call.ret = FALSE
          /\ ROOMS = pre

\* C22's case: a third player asked to join a room of two players, one of
\* them with a word pending, and was refused.
C22_Witness ==
    /\ Request("pvp_join")
    /\ Len(PreRoom.players) = 2
    /\ ~GameRoom_has_player(PreRoom, call.player)
    /\ \E i \in 1..2 : PreRoom.words[PreRoom.players[i]] # <<>>
    /\ call.ret = FALSE
    /\ ROOMS = pre

\* The number of changes of the room the last request made: a player added, a
\* word submitted, a game created, a guess that changed the game.
Changes ==
    (IF Room.players # PreRoom.players THEN 1 ELSE 0)
    + (IF /\ call.op = "pvp_submit_word"
          /\ GameRoom_has_player(PreRoom, call.player)
          /\ Len(WordClean(call.letter)) > 0 THEN 1 ELSE 0)
    + (IF PreRoom.game = <<>> /\ Room.game # <<>> THEN 1 ELSE 0)
    + (IF PreRoom.game # <<>> /\ Room.game # PreRoom.game THEN 1 ELSE 0)

\* C25: the version of a room grows by one for every change the request made
\* and not otherwise. A request that changes nothing, like a guess refused
\* because it is not the sender's turn or the match is finished, leaves the
\* version as it was.
C25_VersionCountsChanges ==
    ( /\ mode = "pvp"
      /\ call.op \in {"pvp_join", "pvp_submit_word", "pvp_guess", "pvp_room",
                       "pvp_room_state"}
      /\ RoomId \in DOMAIN ROOMS )
    => Room.version = PreRoom.version + Changes

\* The mode that the state poll tells the player.
ModeOf(player_id) == pvp_room_state(ROOMS, RoomId, player_id).mode

\* The last request was the submission of a word that is not empty, by a
\* player of a room of two players without a game.
WordSubmitted ==
    /\ Request("pvp_submit_word")
    /\ Len(PreRoom.players) = 2
    /\ PreRoom.game = <<>>
    /\ GameRoom_has_player(PreRoom, call.player)
    /\ Len(WordClean(call.letter)) > 0

\* C27: in a room of two players without a game, every submission of a word
\* grows the version, and the submission after which both players have a word
\* leaves the room with a running game that both players are told to be
\* in_game of; the version is then at least 2 higher than before the first of
\* the two submissions, which the two joins had left at 2 or more.
C27_BothWordsStartGame ==
    /\ WordSubmitted => Room.version >= PreRoom.version + 1
    /\ ( /\ WordSubmitted
         /\ PreRoom.words[GameRoom_other_player(PreRoom, call.player)] # <<>> )
       => /\ Room.game # <<>>
          /\ ~Room.game[1].finished
          /\ \A i \in 1..2 : ModeOf(Room.players[i]) = "in_game"
          /\ Room.version >= PreRoom.version + 2
          /\ Room.version >= 2 + 2

\* C27's case: the player who joined first submitted a word after the other
\* player had, and the game started.
C27_Witness ==
    /\ WordSubmitted
    /\ call.player = PreRoom.players[1]
    /\ PreRoom.words[PreRoom.players[2]] # <<>>
    /\ PreRoom.words[PreRoom.players[1]] = <<>>
    /\ Room.game # <<>>
    /\ ModeOf(call.player) = "in_game"

\* C28: the submission of a raw word without any alphabetic character changes
\* nothing: not the words pending, not the game, not the version.
C28_EmptyWordRejected ==
    ( Request("pvp_submit_word") /\ Len(WordClean(call.letter)) = 0 )
    => ROOMS = pre

\* C28's case: a player of the room submitted a word without a letter while
\* the other player's word was pending.
C28_Witness ==
    /\ Request("pvp_submit_word")
    /\ Len(call.letter) > 0
    /\ Len(WordClean(call.letter)) = 0
    /\ Len(PreRoom.players) = 2
    /\ GameRoom_has_player(PreRoom, call.player)
    /\ PreRoom.words[GameRoom_other_player(PreRoom, call.player)] # <<>>
    /\ PreRoom.game = <<>>
    /\ ROOMS = pre

\* The last request was a join by a player who was not in the room, to a room
\* with fewer than 2 players.
JoinAdmits ==
    ~GameRoom_has_player(PreRoom, call.player) /\ Len(PreRoom.players) < 2

\* The last join added the player and grew the version by one.
JoinAdded ==
    /\ Room.players = Append(PreRoom.players, call.player)
    /\ Room.words = (call.player :> <<>>) @@ PreRoom.words
    /\ Room.game = PreRoom.game
    /\ Room.version = PreRoom.version + 1

\* C29 as stated: join returns true exactly when the player was not in the
\* room and the room had fewer than 2 players, and adds the player then; in
\* every other case, a player already present included, it returns false and
\* changes nothing.
C29_JoinTrueOnlyWhenAdded ==
    Request("pvp_join")
    => /\ call.ret = TRUE <=> JoinAdmits
       /\ JoinAdmits => JoinAdded
       /\ ~JoinAdmits => Room = PreRoom

\* C29, amended: join returns false exactly when the player was not in the
\* room and the room had 2 players already. It returns true when it adds the
\* player, growing the version by one, and also for a player who is already
\* present; the room changes in the first of the three cases only.
C29_JoinFalseOnlyWhenFull ==
    Request("pvp_join")
    => /\ call.ret = FALSE
             <=> (~GameRoom_has_player(PreRoom, call.player) /\ Len(PreRoom.players) >= 2)
       /\ JoinAdmits => JoinAdded
       /\ ~JoinAdmits => Room = PreRoom

\* C29's case: a player already in the room, with a word pending, joined
\* again; true was returned and nothing changed.
C29_Witness ==
    /\ Request("pvp_join")
    /\ GameRoom_has_player(PreRoom, call.player)
    /\ PreRoom.words[call.player] # <<>>
    /\ call.ret = TRUE
    /\ Room = PreRoom

----------------------------------------------------------------------------
(* Requests that race: the handlers of app.py run statement by statement on
   the threads of the server, and nothing in app.py makes two of them wait
   for each other. *)

\* The GameRoom objects that were ever constructed.
Addresses == 1..Len(heap)

\* The GameRoom that ROOMS holds under the room id.
Registered == heap[ROOMS_get(RoomId)].room

\* C23: under every interleaving of the join requests on one room, the check
\* of the player count and the insertion being separate steps, no room ever
\* holds more than 2 players.
C23_JoinsNeverAdmitThird ==
    \A a \in Addresses : Len(heap[a].room.players) <= 2

\* C24: under every interleaving of word submissions and reads of the room
\* page, the game of a room, once set, is never replaced by another game.
C24_GameCreatedOnce ==
    [][\A a \in Addresses :
          heap[a].room.game # <<>> => heap'[a].room.game = heap[a].room.game]_vars

\* C26: under every interleaving of the requests that change a room, no
\* `version += 1` is lost: the version of a room equals the number of
\* increments completed on it.
C26_VersionLosesNoUpdate ==
    \A a \in Addresses : heap[a].room.version = heap[a].bumps

\* C26, the other half: the version of a room never decreases.
VersionNeverDecreases ==
    [][\A a \in Addresses : heap'[a].room.version >= heap[a].room.version]_vars

\* Every request that holds a room holds the registered one.
SameRoomReturned ==
    \A t \in Threads : threads[t].room # 0 => threads[t].room = ROOMS_get(RoomId)

\* Every player and every word recorded in a room that was constructed for
\* the id is recorded in the registered room.
NothingLost ==
    \A a \in Addresses :
        \A i \in 1..Len(heap[a].room.players) :
            LET player_id == heap[a].room.players[i] IN
            /\ GameRoom_has_player(Registered, player_id)
            /\ Registered.words[player_id] = heap[a].room.words[player_id]

\* C30: get_or_create_room is idempotent under every interleaving, two
\* first references at once included: one GameRoom exists for the id, every
\* call returned it, and no player or word recorded for the id is lost.
C30_OneRoomPerId ==
    /\ Len(heap) <= 1
    /\ SameRoomReturned
    /\ ROOMS_get(RoomId) # 0 => NothingLost

----------------------------------------------------------------------------
(* The words of a room's game. *)

\* A word with every letter hidden.
Hidden(word) == [i \in 1..Len(word) |-> "_"]

\* The mask that get_view_for shows the player.
MaskShown(g, player) == VersusGame_get_view_for(g, player).view.masked_opponent_word

\* The last request was the word submission that created the game of the room.
GameCreated ==
    /\ Request("pvp_submit_word")
    /\ RoomId \in DOMAIN pre
    /\ PreRoom.game = <<>>
    /\ Room.game # <<>>

\* The last request was a guess by a player of the room's game.
GuessInRoom ==
    /\ Request("pvp_guess")
    /\ PreRoom.game # <<>>
    /\ GameRoom_has_player(PreRoom, call.player)

\* C31: when the game of a room is created, each player owns the word they
\* submitted and guesses the other player's. For the player A who submitted
\* last and the other player B, with their words wA and wB: the word state
\* owned by A holds wA and the one owned by B holds wB, A is shown the mask of
\* wB and B the mask of wA. A guess by A leaves A's own word state and the
\* secret word of B alone, a guess accepted from A adds its letter to the
\* letters guessed against wB, and a guess that reveals wB makes A the winner.
C31_PlayersOwnTheirWords ==
    /\ GameCreated =>
         LET A  == call.player
             B  == GameRoom_other_player(Room, A)
             wA == WordClean(call.letter)
             wB == PreRoom.words[B][1]
             g  == Room.game[1]
         IN  /\ g.word_states_by_owner[A] = [secret_word |-> wA, guessed_letters |-> {}]
             /\ g.word_states_by_owner[B] = [secret_word |-> wB, guessed_letters |-> {}]
             /\ MaskShown(g, A) = Hidden(wB)
             /\ MaskShown(g, B) = Hidden(wA)
    /\ GuessInRoom =>
         LET A  == call.player
             B  == GameRoom_other_player(Room, A)
             g0 == PreRoom.game[1]
             g  == Room.game[1]
         IN  /\ g.word_states_by_owner[A] = g0.word_states_by_owner[A]
             /\ g.word_states_by_owner[B].secret_word = g0.word_states_by_owner[B].secret_word
             /\ MaskShown(g, A) = WordState_masked_word(g.word_states_by_owner[B])
             /\ ( /\ ~g0.finished
                  /\ VersusGame_get_current_player(g0) = A
                  /\ ValidGuess(call.letter) )
                => LetterOf(call.letter) \in g.word_states_by_owner[B].guessed_letters
             /\ ( /\ ~g0.finished
                  /\ WordState_is_fully_revealed(g.word_states_by_owner[B]) )
                => /\ g.finished
                   /\ g.winner_id = A

\* C31's case: the player who joined first submitted last, a word other than
\* the word of the player who joined second, and the game was created.
C31_Witness ==
    /\ GameCreated
    /\ call.player = Room.players[1]
    /\ Room.words[Room.players[1]] # Room.words[Room.players[2]]

\* C31's case: the player who joined second revealed the word of the player
\* who joined first, which is not their own word, and won.
C31_WitnessWin ==
    /\ GuessInRoom
    /\ call.player = Room.players[2]
    /\ ~PreRoom.game[1].finished
    /\ Room.game[1].word_states_by_owner[Room.players[1]].secret_word
         # Room.game[1].word_states_by_owner[Room.players[2]].secret_word
    /\ Room.game[1].winner_id = call.player

----------------------------------------------------------------------------
(* Properties of the versus match: the end of the game and the word states. *)

\* The last call was made on a finished match with one of the three methods
\* that play it.
CallOnFinished ==
    /\ mode = "versus"
    /\ call.op \in {"guess_letter", "ai_solve_opponent_word", "check_timeout"}
    /\ pre.finished

\* C32: a finished versus match is left as it is by guess_letter and
\* ai_solve_opponent_word of any player and by check_timeout with any
\* arguments: both word states, current_player_index, turn_started_at,
\* finished and winner_id are unchanged, and guess_letter and check_timeout
\* return False.
C32_VersusTerminalAbsorbing ==
    CallOnFinished =>
        /\ versus = pre
        /\ call.op \in {"guess_letter", "check_timeout"} => call.ret = FALSE

\* C32's case: on a finished match, the player whose turn it was when the
\* match ended has guessed a letter not guessed before.
C32_Witness ==
    /\ CallOnFinished
    /\ call.op = "guess_letter"
    /\ call.player = VersusGame_get_current_player(pre)
    /\ ValidGuess(call.letter)
    /\ LetterOf(call.letter) \notin OpponentWord(pre, call.player).guessed_letters

\* C32's case: on a finished match, the player whose turn it was when the
\* match ended has asked to solve.
C32_WitnessSolve ==
    /\ CallOnFinished
    /\ call.op = "ai_solve_opponent_word"
    /\ call.player = VersusGame_get_current_player(pre)

\* C32's case: on a finished match, check_timeout was called after the
\* timeout had elapsed.
C32_WitnessTimeout ==
    /\ CallOnFinished
    /\ call.op = "check_timeout"
    /\ call.now - pre.turn_started_at >= call.timeout_seconds

\* The word owned by the player is fully revealed.
Revealed(g, owner) == WordState_is_fully_revealed(g.word_states_by_owner[owner])

\* C33: in every state of a versus match with words that are not empty, the
\* match is finished if and only if one of the two words is fully revealed;
\* then winner_id is set, to the player who does not own the revealed word,
\* and while the match is not finished winner_id is None.
C33_FinishedIffRevealed ==
    mode = "versus" =>
        /\ versus.finished <=> \E owner \in {Player1, Player2} : Revealed(versus, owner)
        /\ versus.finished =>
              /\ versus.winner_id \in {Player1, Player2}
              /\ \A owner \in {Player1, Player2} :
                    Revealed(versus, owner) =>
                        versus.winner_id = VersusGame_get_opponent_of(versus, owner)
        /\ ~versus.finished => versus.winner_id = None

\* C33's case: the second player's word was revealed by a guess of the first
\* player, whose own word still has a hidden letter, and the first player has
\* won.
C33_Witness ==
    /\ mode = "versus"
    /\ call.op = "guess_letter"
    /\ ~pre.finished
    /\ versus.finished
    /\ Revealed(versus, Player2)
    /\ ~Revealed(versus, Player1)
    /\ versus.word_states_by_owner[Player1].guessed_letters # {}
    /\ versus.winner_id = Player1

\* C33's case: letters were guessed against both words and each word still
\* has a hidden letter; the match goes on.
C33_WitnessRunning ==
    /\ mode = "versus"
    /\ ~versus.finished
    /\ \A owner \in {Player1, Player2} :
          /\ ~Revealed(versus, owner)
          /\ versus.word_states_by_owner[owner].guessed_letters # {}

\* C34: in every state of a versus match, after any guess_letter calls with
\* any input strings and any solve, the guessed letters of each word state
\* are single lowercase letters of a..z.
C34_GuessedLettersInAlphabet ==
    mode = "versus" =>
        \A owner \in {Player1, Player2} :
            versus.word_states_by_owner[owner].guessed_letters \subseteq LowerAscii

\* C34, the other half: no step removes a guessed letter or changes a secret
\* word.
GuessedLettersGrow ==
    [][mode = "versus" =>
        \A owner \in {Player1, Player2} :
            /\ versus.word_states_by_owner[owner].guessed_letters
                 \subseteq versus'.word_states_by_owner[owner].guessed_letters
            /\ versus'.word_states_by_owner[owner].secret_word
                 = versus.word_states_by_owner[owner].secret_word]_vars

\* C35: guess_letter(player, letter) leaves the word state owned by the
\* player alone, in every state of a versus match and for every letter: its
\* guessed letters, its secret word and so its mask are what they were. A
\* call by someone who is not a player of the match leaves both word states
\* alone.
C35_GuessLeavesOwnWord ==
    ( mode = "versus" /\ call.op = "guess_letter" ) =>
        IF call.player \in {Player1, Player2}
        THEN /\ versus.word_states_by_owner[call.player]
                  = pre.word_states_by_owner[call.player]
             /\ WordState_masked_word(versus.word_states_by_owner[call.player])
                  = WordState_masked_word(pre.word_states_by_owner[call.player])
        ELSE versus.word_states_by_owner = pre.word_states_by_owner

\* C35's case: the current player has guessed a letter that is hidden in their
\* own word, and the guess was taken against the opponent's word.
C35_Witness ==
    /\ GuessByCurrentPlayer
    /\ ValidGuess(call.letter)
    /\ LetterOf(call.letter) \in CharsOf(pre.word_states_by_owner[call.player].secret_word)
    /\ LetterOf(call.letter) \notin pre.word_states_by_owner[call.player].guessed_letters
    /\ LetterOf(call.letter) \notin OpponentWord(pre, call.player).guessed_letters
    /\ LetterOf(call.letter) \in OpponentWord(versus, call.player).guessed_letters

----------------------------------------------------------------------------
(* Properties of the match against the computer, request by request. *)

\* The word is not empty and made of the letters a..z.
OverAlphabet(word) == Len(word) > 0 /\ CharsOf(word) \subseteq LowerAscii

\* The last request was multiplayer_ai_move and the computer made a move.
ComputerMoved ==
    /\ mode = "versus"
    /\ call.op = "multiplayer_ai_move"
    /\ call.ret.type # "redirect"

\* C36: the alphabet is never exhausted in a running match. If every letter
\* of a..z has been guessed against a word that is not empty and made of
\* letters of a..z, the match is finished; so decide_move is never asked for
\* a move against such a word with no letter left to guess.
C36_AlphabetNeverExhausted ==
    /\ mode = "versus" =>
          \A owner \in {Human, Computer} :
              ( /\ OverAlphabet(versus.word_states_by_owner[owner].secret_word)
                /\ LowerAscii \subseteq versus.word_states_by_owner[owner].guessed_letters )
              => versus.finished
    /\ ( /\ ComputerMoved
         /\ OverAlphabet(pre.word_states_by_owner[Human].secret_word) )
       => LowerAscii \ pre.word_states_by_owner[Human].guessed_letters # {}

\* C36's case: the computer has guessed the last letter of the alphabet
\* against the human's word, a word of a..z, and the match is finished.
C36_Witness ==
    /\ ComputerMoved
    /\ call.ret.type = "letter"
    /\ OverAlphabet(versus.word_states_by_owner[Human].secret_word)
    /\ ~(LowerAscii \subseteq pre.word_states_by_owner[Human].guessed_letters)
    /\ LowerAscii \subseteq versus.word_states_by_owner[Human].guessed_letters
    /\ versus.finished

\* The computer is to move: the match is not finished and it is its turn.
ComputersTurn(g) == ~g.finished /\ VersusGame_get_current_player(g) = Computer

\* C37: the turn of the computer ends. A request to multiplayer_ai_move made
\* while the computer is to move gets a letter or a solve from decide_move,
\* for every intelligence and every draw, and after it the match is finished,
\* or the turn is the human's, or one more letter of the human's word is
\* revealed; and the moves the computer makes in a row, which hist records,
\* are never more than the letters of the alphabet plus one.
C37_ComputerTurnEnds ==
    /\ mode = "versus" => Len(hist) <= Cardinality(LowerAscii) + 1
    /\ ( /\ mode = "versus"
         /\ call.op = "multiplayer_ai_move"
         /\ ComputersTurn(pre) )
       => /\ call.ret.type \in {"letter", "solve"}
          /\ \/ versus.finished
             \/ VersusGame_get_current_player(versus) = Human
             \/ /\ call.ret.type = "letter"
                /\ call.ret.letter \in CharsOf(versus.word_states_by_owner[Human].secret_word)
                /\ call.ret.letter \notin pre.word_states_by_owner[Human].guessed_letters
                /\ call.ret.letter \in versus.word_states_by_owner[Human].guessed_letters

\* C37's case: the computer has made two moves in a row, a letter that kept
\* it the turn and the letter that revealed the word.
C37_Witness ==
    /\ ComputerMoved
    /\ Len(hist) = 2
    /\ hist[1].type = "letter"
    /\ hist[2].type = "letter"
    /\ ComputersTurn(pre)
    /\ versus.finished
    /\ versus.winner_id = Computer

\* C37's case: with no letter of a..z left to guess, the computer has guessed
\* "e" again and the turn has passed to the human.
C37_WitnessExhausted ==
    /\ ComputerMoved
    /\ ComputersTurn(pre)
    /\ LowerAscii \subseteq pre.word_states_by_owner[Human].guessed_letters
    /\ call.ret.type = "letter"
    /\ VersusGame_get_current_player(versus) = Human
    /\ ~versus.finished

\* C37's case: the computer has solved the word after a letter that kept it
\* the turn.
C37_WitnessSolve ==
    /\ ComputerMoved
    /\ Len(hist) = 2
    /\ hist[2].type = "solve"
    /\ versus.finished

====
